---------------------------- MODULE Spec2Model ----------------------------
(***************************************************************************)
(* Central-package-migration scripts: batch-project-updater.py,            *)
(* package-version-extractor.py, build-log-analyzer.py.                    *)
(*                                                                         *)
(* Text is modelled as a sequence of lexemes.  A lexeme is a triple        *)
(* <<kind, name, value>>; the regular expressions of the scripts are       *)
(* translated atom by atom onto lexemes (a tag opener "<Name", a closing   *)
(* opener "</Name", ">", "/", a run of white space, an attribute           *)
(* name="value", element text).                                            *)
(***************************************************************************)
EXTENDS Naturals, Integers, Sequences, FiniteSets, TLC

VARIABLES
    document,          \* pure transformations: the elements the text was written from
    original_content,  \* the text an operation read
    modified_content,  \* the text the operation computed
    applied,           \* the operation applied, with its parameters
    tool,              \* the script that runs
    linesep,           \* os.linesep of the platform
    disk,              \* project file -> its content on disk and its access mode
    backups,           \* project file -> its .backup sibling
    args,              \* the parsed command line of the run
    project_files,     \* find_project_files()
    pc,                \* where the run is: start, loop, done, exit, crashed
    idx,               \* the place in the batch of the file processed next
    exit_code,
    changes_made,      \* BatchProjectUpdater.changes_made
    runs,              \* the runs started so far
    run_start,         \* history: disk and backups when the run started
    previous,          \* history: the last earlier run that reached its summary
    last,              \* history: the last file processed, before and after
    config_files,      \* extractor: the packages.config files found
    csproj_files,      \* extractor: the .csproj files found
    packages,          \* PackageVersionExtractor.packages: name -> set of versions
    package_sources,   \* PackageVersionExtractor.package_sources: name -> list of files
    conflicts,         \* resolve_version_conflicts(): name -> the versions in conflict
    resolutions,       \* resolve_version_conflicts(): name -> the version chosen
    generated,         \* extractor: the central version file and the report generated
    argv,              \* analyzer: sys.argv[1:]
    log_files,         \* analyzer: the logs to analyze
    results,           \* analyzer: the results collected
    caught,            \* history: the exceptions caught in the run
    categorized,       \* categorize_package: the name given and the category returned
    solution,          \* validator: the solution directory and its toolchain
    validation_results, \* MigrationValidator.validation_results
    packages_in_props,  \* MigrationValidator.packages_in_props
    packages_in_projects, \* MigrationValidator.packages_in_projects
    trail              \* history: what the run did outside the process, in order

transformVars == <<document, original_content, modified_content, applied>>
updaterVars ==
    <<linesep, disk, backups, args, project_files, changes_made, runs,
      run_start, previous, last>>
extractorVars ==
    <<config_files, csproj_files, packages, package_sources, conflicts, resolutions,
      generated, categorized>>
validatorVars ==
    <<solution, validation_results, packages_in_props, packages_in_projects>>
analyzerVars == <<argv, log_files, results>>
controlVars == <<tool, pc, idx, exit_code, caught, trail>>
vars ==
    <<transformVars, updaterVars, extractorVars, analyzerVars, validatorVars,
      controlVars>>

(***************************************************************************)
(* Lexemes                                                                 *)
(***************************************************************************)
Tag(n) == <<"tag", n, "">>
CTag(n) == <<"ctag", n, "">>
Gt == <<"gt", "", ">">>
Slash == <<"slash", "", "/">>
Sp == <<"ws", "", " ">>
Indent == <<"ws", "", "    ">>
Nl == <<"ws", "", "\n">>
CrLf == <<"ws", "", "\r\n">>
Attr(n, v) == <<"attr", n, v>>
Text(v) == <<"text", "", v>>

\* \s of the regular expressions
IsWs(t) == t[1] = "ws"

\* [^>] of the regular expressions: every lexeme but ">"
NotGt(t) == t[1] # "gt"

\* Include="[^"]+" and Version="[^"]+" : an attribute with a non-empty value
IsAttr(t, n) == t[1] = "attr" /\ t[2] = n /\ t[3] # ""

\* The index of the first lexeme at or after i that is no white space
\* (Len(s) + 1 when there is none): the end of a greedy \s*.
RECURSIVE SkipWs(_, _)
SkipWs(s, i) ==
    IF i <= Len(s) /\ IsWs(s[i]) THEN SkipWs(s, i + 1) ELSE i

\* The index of the first ">" at or after i (Len(s) + 1 when there is
\* none): the end of a greedy [^>]*.
RECURSIVE SkipNotGt(_, _)
SkipNotGt(s, i) ==
    IF i <= Len(s) /\ NotGt(s[i]) THEN SkipNotGt(s, i + 1) ELSE i

Slice(s, a, b) == IF a > b THEN <<>> ELSE SubSeq(s, a, b)

NoMatch == [ok |-> FALSE, inc |-> 0, ver |-> 0, end |-> 0]

(***************************************************************************)
(* remove_package_versions                                                 *)
(*   pattern = (<PackageReference\s+Include="[^"]+")                       *)
(*             (\s+Version="[^"]+")(\s*/?)                                 *)
(* A match that starts at lexeme i: inc is the place of the Include        *)
(* attribute (end of group 1), ver the place of the Version attribute      *)
(* (end of group 2), end the first lexeme after group 3.                   *)
(***************************************************************************)
VersionPattern(s, i) ==
    IF i > Len(s) \/ s[i] # Tag("PackageReference") THEN NoMatch
    ELSE LET j == SkipWs(s, i + 1)
         IN IF j = i + 1 \/ j > Len(s) \/ ~IsAttr(s[j], "Include") THEN NoMatch
            ELSE LET k == SkipWs(s, j + 1)
                 IN IF k = j + 1 \/ k > Len(s) \/ ~IsAttr(s[k], "Version")
                    THEN NoMatch
                    ELSE LET m == SkipWs(s, k + 1)
                             e == IF m <= Len(s) /\ s[m] = Slash
                                  THEN m + 1 ELSE m
                         IN [ok |-> TRUE, inc |-> j, ver |-> k, end |-> e]

\* re.sub(pattern, r'\1\3', content): leftmost non-overlapping matches,
\* each replaced by its groups 1 and 3.
RECURSIVE SubVersions(_, _)
SubVersions(s, i) ==
    IF i > Len(s) THEN <<>>
    ELSE LET m == VersionPattern(s, i)
         IN IF m.ok
            THEN Slice(s, i, m.inc) \o Slice(s, m.ver + 1, m.end - 1)
                     \o SubVersions(s, m.end)
            ELSE <<s[i]>> \o SubVersions(s, i + 1)

\* len(re.findall(pattern, content))
RECURSIVE CountVersions(_, _)
CountVersions(s, i) ==
    IF i > Len(s) THEN 0
    ELSE LET m == VersionPattern(s, i)
         IN IF m.ok THEN 1 + CountVersions(s, m.end)
            ELSE CountVersions(s, i + 1)

StripVersions(content) == SubVersions(content, 1)

(***************************************************************************)
(* remove_package_reference                                                *)
(*   pattern = <PackageReference\s+Include="{package_name}"[^>]*/?>\s*\n?  *)
(* end is the first lexeme after the match (0: no match).                  *)
(***************************************************************************)
ReferencePattern(s, i, package_name) ==
    IF i > Len(s) \/ s[i] # Tag("PackageReference") THEN 0
    ELSE LET j == SkipWs(s, i + 1)
         IN IF j = i + 1 \/ j > Len(s) \/ s[j] # Attr("Include", package_name)
            THEN 0
            ELSE LET g == SkipNotGt(s, j + 1)
                 IN IF g > Len(s) THEN 0 ELSE SkipWs(s, g + 1)

\* re.sub(pattern, '', content, flags=re.MULTILINE)
RECURSIVE SubReference(_, _, _)
SubReference(s, i, package_name) ==
    IF i > Len(s) THEN <<>>
    ELSE LET e == ReferencePattern(s, i, package_name)
         IN IF e # 0 THEN SubReference(s, e, package_name)
            ELSE <<s[i]>> \o SubReference(s, i + 1, package_name)

RemoveReference(content, package_name) == SubReference(content, 1, package_name)

(***************************************************************************)
(* add_generate_assembly_info / add_property                               *)
(*   pattern = (<PropertyGroup>), re.sub(..., count=1)                     *)
(***************************************************************************)
\* The place of the first "<PropertyGroup>" at or after i (0: none).
RECURSIVE FirstPropertyGroup(_, _)
FirstPropertyGroup(s, i) ==
    IF i + 1 > Len(s) THEN 0
    ELSE IF s[i] = Tag("PropertyGroup") /\ s[i + 1] = Gt THEN i
         ELSE FirstPropertyGroup(s, i + 1)

\* '\n    <name>value</name>'
PropertyText(name, value) ==
    <<Nl, Indent, Tag(name), Gt, Text(value), CTag(name), Gt>>

InsertProperty(content, name, value) ==
    LET p == FirstPropertyGroup(content, 1)
    IN IF p = 0 THEN content
       ELSE Slice(content, 1, p + 1) \o PropertyText(name, value)
                \o Slice(content, p + 2, Len(content))

\* 'SharedAssemblyInfo' in content
SharedAssemblyInfoPath == "..\\SharedAssemblyInfo.cs"
HasSharedAssemblyInfo(content) ==
    \E i \in 1..Len(content) :
        \/ content[i][2] = "SharedAssemblyInfo"
        \/ content[i][3] = SharedAssemblyInfoPath

\* 'GenerateAssemblyInfo' in content
HasGenerateAssemblyInfo(content) ==
    \E i \in 1..Len(content) :
        \/ content[i][2] = "GenerateAssemblyInfo"
        \/ content[i][3] = "GenerateAssemblyInfo"

\* f'<{property_name}>' in content
HasProperty(content, property_name) ==
    \E i \in 1..Len(content) :
        /\ i + 1 <= Len(content)
        /\ content[i] = Tag(property_name)
        /\ content[i + 1] = Gt

AddGenerateAssemblyInfo(content) ==
    IF ~HasSharedAssemblyInfo(content) THEN content
    ELSE IF HasGenerateAssemblyInfo(content) THEN content
         ELSE InsertProperty(content, "GenerateAssemblyInfo", "false")

AddProperty(content, property_name, property_value) ==
    IF HasProperty(content, property_name) THEN content
    ELSE InsertProperty(content, property_name, property_value)


(***************************************************************************)
(* Project files as documents: the elements a project file is written      *)
(* from, and the text of each.                                             *)
(***************************************************************************)
Element(kind, attrs, open, props) ==
    [kind |-> kind, attrs |-> attrs, open |-> open, props |-> props]

PackageRef(attrs, open) == Element("PackageReference", attrs, open, <<>>)
PropertyGroup(attrs, props) == Element("PropertyGroup", attrs, TRUE, props)

RECURSIVE AttrText(_)
AttrText(attrs) ==
    IF attrs = <<>> THEN <<>>
    ELSE <<Sp, Head(attrs)>> \o AttrText(Tail(attrs))

RECURSIVE PropsText(_)
PropsText(props) ==
    IF props = <<>> THEN <<>>
    ELSE <<Indent, Tag(Head(props)[1]), Gt, Text(Head(props)[2]),
           CTag(Head(props)[1]), Gt, Nl>> \o PropsText(Tail(props))

ElementText(e) ==
    IF e.kind = "PropertyGroup"
    THEN <<Tag(e.kind)>> \o AttrText(e.attrs) \o <<Gt, Nl>>
             \o PropsText(e.props) \o <<CTag(e.kind), Gt, Nl>>
    ELSE IF e.open
         THEN <<Indent, Tag(e.kind)>> \o AttrText(e.attrs) \o <<Gt, Nl>>
                  \o PropsText(<<<<"PrivateAssets", "all">>>>)
                  \o <<Indent, CTag(e.kind), Gt, Nl>>
         ELSE <<Indent, Tag(e.kind)>> \o AttrText(e.attrs)
                  \o <<Sp, Slash, Gt, Nl>>

RECURSIVE DocumentText(_)
DocumentText(doc) ==
    IF doc = <<>> THEN <<>>
    ELSE ElementText(Head(doc)) \o DocumentText(Tail(doc))

PackageNames == {"A", "B"}
IncA == Attr("Include", "A")
IncB == Attr("Include", "B")
Ver1 == Attr("Version", "1.0.0")
Ver2 == Attr("Version", "2.0.0")
Cond == Attr("Condition", "c")

\* The elements documents are drawn from.
Elements ==
    { PackageRef(<<IncA, Ver1>>, FALSE),        \* not yet migrated
      PackageRef(<<IncA>>, FALSE),              \* migrated
      PackageRef(<<IncB, Ver2>>, FALSE),
      PackageRef(<<IncA, Cond, Ver1>>, FALSE),  \* an attribute before Version
      PackageRef(<<Ver1, IncA>>, FALSE),        \* Version before Include
      PackageRef(<<IncA, Ver1>>, TRUE),         \* open form, with a child
      PackageRef(<<IncA, Ver1, Ver2>>, FALSE),  \* not well-formed: Version twice
      PropertyGroup(<<>>, <<<<"OutputType", "Library">>>>),
      PropertyGroup(<<Cond>>, <<<<"OutputType", "Library">>>>),
      PropertyGroup(<<>>, <<<<"GenerateAssemblyInfo", "false">>>>),
      PropertyGroup(<<>>, <<<<"LangVersion", "latest">>>>),
      Element("Compile", <<Attr("Include", SharedAssemblyInfoPath)>>, FALSE, <<>>) }

MaxElements == 3

RECURSIVE SeqsUpTo(_, _)
SeqsUpTo(S, n) ==
    IF n = 0 THEN {<<>>}
    ELSE LET shorter == SeqsUpTo(S, n - 1)
         IN shorter \cup {Append(d, e) : d \in shorter, e \in S}

Documents == SeqsUpTo(Elements, MaxElements)

PropertyNames == {"LangVersion"}
PropertyValues == {"latest"}

NotApplied ==
    [operation |-> "none", package_name |-> "", property_name |-> "",
     property_value |-> "", times |-> 0]

(***************************************************************************)
(* The file system the updater works on                                    *)
(***************************************************************************)
Files == {"a.csproj", "b.csproj"}
FileLists == {<<>>, <<"a.csproj">>, <<"a.csproj", "b.csproj">>}

\* open(path, 'r', encoding='utf-8').read(): universal newlines, "\r\n" is
\* read as "\n".
RECURSIVE Decode(_)
Decode(bytes) ==
    IF bytes = <<>> THEN <<>>
    ELSE <<IF Head(bytes) = CrLf THEN Nl ELSE Head(bytes)>> \o Decode(Tail(bytes))

\* open(path, 'w', encoding='utf-8').write(text): "\n" is written as
\* os.linesep.
RECURSIVE Encode(_, _)
Encode(text, sep) ==
    IF text = <<>> THEN <<>>
    ELSE <<IF Head(text) = Nl THEN sep ELSE Head(text)>> \o Encode(Tail(text), sep)

\* The same text with Windows line ends.
WithCrLf(text) == Encode(text, CrLf)

UnmigratedProject ==
    <<PropertyGroup(<<>>, <<<<"OutputType", "Library">>>>),
      Element("Compile", <<Attr("Include", SharedAssemblyInfoPath)>>, FALSE, <<>>),
      PackageRef(<<IncA, Ver1>>, FALSE)>>
MigratedProject == <<PackageRef(<<IncA>>, FALSE)>>

DiskContents ==
    { DocumentText(UnmigratedProject), WithCrLf(DocumentText(UnmigratedProject)),
      DocumentText(MigratedProject) }

\* rw: readable and writable; ro: read-only; none: cannot be read (no
\* permission, or bytes that are not UTF-8).
Modes == {"rw", "ro", "none"}

NoBackup == [exists |-> FALSE, content |-> <<>>]

NoArgs ==
    [operation |-> "none", package_name |-> "", property_name |-> "",
     property_value |-> "", dry_run |-> FALSE]

Operations ==
    {"remove-package-versions", "add-generate-assembly-info", "remove-package",
     "add-property"}

\* The command lines tried: --package-name, --property-name and
\* --property-value are given ("" when left out) with every operation.
ArgSets ==
    { [operation |-> o, package_name |-> n, property_name |-> pn,
       property_value |-> pv, dry_run |-> d] :
          o \in Operations, n \in {"", "A"}, pn \in {"", "LangVersion"},
          pv \in {"", "latest"}, d \in BOOLEAN }

NoRun == [args |-> NoArgs, project_files |-> <<>>, changes_made |-> <<>>]
NoFile ==
    [file |-> "", read |-> FALSE, text |-> <<>>, modified |-> <<>>,
     before |-> [content |-> <<>>, mode |-> "none"],
     backup_before |-> NoBackup, raised |-> FALSE, kept |-> <<>>]

UpdaterIdle ==
    /\ linesep = Nl
    /\ disk = [f \in Files |-> [content |-> <<>>, mode |-> "rw"]]
    /\ backups = [f \in Files |-> NoBackup]
    /\ args = NoArgs
    /\ project_files = <<>>
    /\ changes_made = <<>>
    /\ runs = 0
    /\ run_start = [disk |-> disk, backups |-> backups]
    /\ previous = NoRun
    /\ last = NoFile

MaxRuns == 2

(***************************************************************************)
(* batch-project-updater.py: main                                          *)
(***************************************************************************)
MissingNothing(a) == FALSE

\* main, lines 232-239: the parameters the operation needs are missing
MissingParameter(a) ==
    IF a.operation = "remove-package" THEN a.package_name = ""
    ELSE IF a.operation = "add-property"
         THEN a.property_name = "" \/ a.property_value = ""
         ELSE FALSE

\* What stays of a command line: the parameters of other operations are
\* parsed and never read.
Effective(a) ==
    [a EXCEPT !.package_name = IF a.operation = "remove-package" THEN @ ELSE "",
              !.property_name = IF a.operation = "add-property" THEN @ ELSE "",
              !.property_value = IF a.operation = "add-property" THEN @ ELSE ""]

\* main up to the call of the operation: parse, validate, find the files.
\* A new process: a new BatchProjectUpdater with changes_made = [].
UpdaterMain ==
    /\ tool = "updater"
    /\ pc \in {"start", "done", "exit"}
    /\ runs < MaxRuns
    /\ runs' = runs + 1
    /\ changes_made' = <<>>
    /\ run_start' = [disk |-> disk, backups |-> backups]
    /\ last' = NoFile
    /\ previous' = IF pc = "done"
                   THEN [args |-> args, project_files |-> project_files,
                         changes_made |-> changes_made]
                   ELSE previous
    /\ \E a \in ArgSets, found \in FileLists :
        /\ a = Effective(a)
        /\ args' = a
        /\ trail' = IF MissingParameter(a) THEN <<>> ELSE <<"discover">>
        /\ IF MissingParameter(a)
           THEN /\ found = <<>>
                /\ project_files' = <<>>
                /\ pc' = "exit" /\ exit_code' = 1 /\ idx' = 1
           ELSE /\ project_files' = found
                /\ IF found = <<>>
                   THEN pc' = "exit" /\ exit_code' = 1 /\ idx' = 1
                   ELSE pc' = "loop" /\ exit_code' = 0 /\ idx' = 1
    /\ caught' = 0
    /\ UNCHANGED <<linesep, disk, backups, tool, transformVars, validatorVars,
                   extractorVars, analyzerVars>>

(***************************************************************************)
(* One turn of the loop "for project_file in project_files"                *)
(***************************************************************************)
ChangedAlways(modified, original) == TRUE

\* line 74: if modified_content != original_content
Changed(modified, original) == modified # original

WritesAllowedAlways(dry_run) == TRUE

\* line 75: if not self.dry_run
WritesAllowed(dry_run) == ~dry_run

\* backup_file, lines 46-53: the file is read again and written to the
\* sibling, unless the sibling exists
BackupFile(bk, dsk, sep, f) ==
    IF bk[f].exists THEN bk
    ELSE [bk EXCEPT ![f] = [exists |-> TRUE,
                            content |-> Encode(Decode(dsk[f].content), sep)]]

OnExceptionPropagates == "traceback"

\* lines 87-88: except Exception: print(...); the loop goes on
OnException == "loop"

Turn(f) ==
    /\ tool = "updater"
    /\ pc = "loop"
    /\ idx <= Len(project_files)
    /\ f = project_files[idx]

\* The try body from the comparison on (lines 74-85), then the except
\* clause.  skip: the body left the turn by "continue" before comparing.
Persist(f, text, modified, skip, change) ==
    LET record == [file |-> f, read |-> TRUE, text |-> text, modified |-> modified,
                   before |-> disk[f], backup_before |-> backups[f],
                   raised |-> FALSE, kept |-> changes_made]
    IN IF skip \/ ~Changed(modified, text)
       THEN /\ UNCHANGED <<disk, backups, changes_made>>
            /\ last' = record
            /\ pc' = "loop" /\ idx' = idx + 1 /\ caught' = caught
       ELSE IF ~WritesAllowed(args.dry_run)
            THEN /\ UNCHANGED <<disk, backups>>
                 /\ changes_made' = Append(changes_made, change)
                 /\ last' = record
                 /\ pc' = "loop" /\ idx' = idx + 1 /\ caught' = caught
            ELSE /\ backups' = BackupFile(backups, disk, linesep, f)
                 /\ IF disk[f].mode = "rw"
                    THEN /\ disk' = [disk EXCEPT ![f].content = Encode(modified, linesep)]
                         /\ changes_made' = Append(changes_made, change)
                         /\ last' = record
                         /\ pc' = "loop" /\ idx' = idx + 1 /\ caught' = caught
                    ELSE \* open(project_file, 'w') raises PermissionError
                         /\ UNCHANGED <<disk, changes_made>>
                         /\ last' = [record EXCEPT !.raised = TRUE]
                         /\ pc' = OnException /\ idx' = idx + 1
                         /\ caught' = caught + 1

\* open(project_file, 'r') or read() raised
ReadFailed(f) ==
    /\ UNCHANGED <<disk, backups, changes_made>>
    /\ last' = [NoFile EXCEPT !.file = f, !.before = disk[f],
                              !.backup_before = backups[f], !.raised = TRUE,
                              !.kept = changes_made]
    /\ pc' = OnException /\ idx' = idx + 1 /\ caught' = caught + 1

Change(f, what, n) == [file |-> f, what |-> what, n |-> n]

Frame ==
    UNCHANGED <<linesep, args, project_files, runs, run_start, previous,
                tool, exit_code, trail, transformVars, validatorVars,
                extractorVars, analyzerVars>>

RemovePackageVersions ==
    \E f \in Files :
        /\ Turn(f)
        /\ args.operation = "remove-package-versions"
        /\ IF disk[f].mode = "none" THEN ReadFailed(f)
           ELSE LET text == Decode(disk[f].content)
                IN Persist(f, text, StripVersions(text), FALSE,
                           Change(f, "Removed Version attributes",
                                  CountVersions(text, 1)))
        /\ Frame

AddGenerateAssemblyInfoTurn ==
    \E f \in Files :
        /\ Turn(f)
        /\ args.operation = "add-generate-assembly-info"
        /\ IF disk[f].mode = "none" THEN ReadFailed(f)
           ELSE LET text == Decode(disk[f].content)
                IN Persist(f, text, AddGenerateAssemblyInfo(text),
                           ~HasSharedAssemblyInfo(text) \/ HasGenerateAssemblyInfo(text),
                           Change(f, "Added GenerateAssemblyInfo=false", 0))
        /\ Frame

RemovePackageReference ==
    \E f \in Files :
        /\ Turn(f)
        /\ args.operation = "remove-package"
        /\ IF disk[f].mode = "none" THEN ReadFailed(f)
           ELSE LET text == Decode(disk[f].content)
                IN Persist(f, text, RemoveReference(text, args.package_name), FALSE,
                           Change(f, "Removed " \o args.package_name, 0))
        /\ Frame

AddPropertyTurn ==
    \E f \in Files :
        /\ Turn(f)
        /\ args.operation = "add-property"
        /\ IF disk[f].mode = "none" THEN ReadFailed(f)
           ELSE LET text == Decode(disk[f].content)
                IN Persist(f, text,
                           AddProperty(text, args.property_name, args.property_value),
                           HasProperty(text, args.property_name),
                           Change(f, "Added " \o args.property_name \o "="
                                       \o args.property_value, 0))
        /\ Frame

\* generate_summary, and the process ends with status 0
GenerateSummary ==
    /\ tool = "updater"
    /\ pc = "loop"
    /\ idx > Len(project_files)
    /\ pc' = "done"
    /\ exit_code' = 0
    /\ UNCHANGED <<linesep, disk, backups, args, project_files, changes_made,
                   runs, run_start, previous, last, tool, idx, caught, trail,
                   transformVars, validatorVars, extractorVars, analyzerVars>>

(***************************************************************************)
(* package-version-extractor.py: version strings and their sort key        *)
(* A version string is the sequence of its characters.                     *)
(***************************************************************************)
Digits == {"0", "1", "2", "3", "4", "5", "6", "7", "8", "9"}

DigitValue(c) ==
    CASE c = "0" -> 0 [] c = "1" -> 1 [] c = "2" -> 2 [] c = "3" -> 3
      [] c = "4" -> 4 [] c = "5" -> 5 [] c = "6" -> 6 [] c = "7" -> 7
      [] c = "8" -> 8 [] c = "9" -> 9

\* ord(c) of the characters the versions are written with
Ord(c) ==
    CASE c \in Digits -> 48 + DigitValue(c)
      [] c = "a" -> 97 [] c = "b" -> 98 [] c = "e" -> 101 [] c = "t" -> 116

\* re.split(r'[.-]', v)
RECURSIVE SplitFrom(_, _, _)
SplitFrom(v, i, segment) ==
    IF i > Len(v) THEN <<segment>>
    ELSE IF v[i] \in {".", "-"}
         THEN <<segment>> \o SplitFrom(v, i + 1, <<>>)
         ELSE SplitFrom(v, i + 1, Append(segment, v[i]))

Split(v) == SplitFrom(v, 1, <<>>)

\* x.isdigit()
IsDigit(x) == x # <<>> /\ \A i \in 1..Len(x) : x[i] \in Digits

\* int(x)
RECURSIVE IntOf(_)
IntOf(x) ==
    IF x = <<>> THEN 0
    ELSE IntOf(SubSeq(x, 1, Len(x) - 1)) * 10 + DigitValue(x[Len(x)])

\* int(x) if x.isdigit() else x
KeyPart(x) ==
    IF IsDigit(x) THEN [int |-> TRUE, n |-> IntOf(x), s |-> <<>>]
    ELSE [int |-> FALSE, n |-> 0, s |-> x]

\* key=lambda v: [int(x) if x.isdigit() else x for x in re.split(r'[.-]', v)]
SortKey(v) == [i \in 1..Len(Split(v)) |-> KeyPart(Split(v)[i])]

\* str < str
RECURSIVE StrLess(_, _, _)
StrLess(a, b, i) ==
    IF i > Len(a) \/ i > Len(b) THEN Len(a) < Len(b)
    ELSE IF a[i] = b[i] THEN StrLess(a, b, i + 1)
         ELSE Ord(a[i]) < Ord(b[i])

\* list < list: the first place where the items are not equal decides, by
\* the items' own "<"; an int and a str are never equal and their "<"
\* raises TypeError.  "T": less, "F": not less, "E": TypeError.
RECURSIVE KeyLess(_, _, _)
KeyLess(a, b, i) ==
    IF i > Len(a) \/ i > Len(b) THEN (IF Len(a) < Len(b) THEN "T" ELSE "F")
    ELSE IF a[i] = b[i] THEN KeyLess(a, b, i + 1)
         ELSE IF a[i].int /\ b[i].int
              THEN (IF a[i].n < b[i].n THEN "T" ELSE "F")
              ELSE IF ~a[i].int /\ ~b[i].int
                   THEN (IF StrLess(a[i].s, b[i].s, 1) THEN "T" ELSE "F")
                   ELSE "E"

Less(v, w) == KeyLess(SortKey(v), SortKey(w), 1)

(***************************************************************************)
(* list.sort of CPython for a short list: count_run finds the run the list *)
(* starts with (a strictly descending run is reversed), binarysort inserts *)
(* the rest by binary search.  A comparison that raises ends the sort.     *)
(***************************************************************************)
Reverse(l) == [i \in 1..Len(l) |-> l[Len(l) + 1 - i]]

\* The length of the run that starts the list (0: a comparison raised).
RECURSIVE RunEnd(_, _, _)
RunEnd(l, i, descending) ==
    IF i > Len(l) THEN i - 1
    ELSE LET c == Less(l[i], l[i - 1])
         IN IF c = "E" THEN 0
            ELSE IF (c = "T") = descending THEN RunEnd(l, i + 1, descending)
                 ELSE i - 1

\* The place where pivot goes among the sorted l[lo..hi-1] (0: raised).
RECURSIVE BinaryPlace(_, _, _, _)
BinaryPlace(l, pivot, lo, hi) ==
    LET p == lo + ((hi - lo) \div 2)
        c == Less(pivot, l[p])
    IN IF c = "E" THEN 0
       ELSE LET lo2 == IF c = "T" THEN lo ELSE p + 1
                hi2 == IF c = "T" THEN p ELSE hi
            IN IF lo2 < hi2 THEN BinaryPlace(l, pivot, lo2, hi2) ELSE lo2

Raised == [raised |-> TRUE, list |-> <<>>]

RECURSIVE BinarySort(_, _)
BinarySort(l, start) ==
    IF start > Len(l) THEN [raised |-> FALSE, list |-> l]
    ELSE LET place == BinaryPlace(l, l[start], 1, start)
         IN IF place = 0 THEN Raised
            ELSE BinarySort(Slice(l, 1, place - 1) \o <<l[start]>>
                                \o Slice(l, place, start - 1)
                                \o Slice(l, start + 1, Len(l)),
                            start + 1)

\* version_list.sort(key=...)
ListSort(l) ==
    IF Len(l) < 2 THEN [raised |-> FALSE, list |-> l]
    ELSE LET c == Less(l[2], l[1])
         IN IF c = "E" THEN Raised
            ELSE LET n == RunEnd(l, 3, c = "T")
                 IN IF n = 0 THEN Raised
                    ELSE BinarySort(IF c = "T"
                                    THEN Reverse(Slice(l, 1, n)) \o Slice(l, n + 1, Len(l))
                                    ELSE l,
                                    n + 1)

(***************************************************************************)
(* resolve_version_conflicts                                               *)
(***************************************************************************)
\* list(versions): a set of str is iterated in an order that depends on the
\* hash seed of the process; every order is possible.
Orders(S) ==
    {l \in [1..Cardinality(S) -> S] : \A i, j \in 1..Cardinality(S) : l[i] = l[j] => i = j}

IterationOrders(pkgs) == {o \in [DOMAIN pkgs -> UNION {Orders(pkgs[n]) : n \in DOMAIN pkgs}] :
                              \A n \in DOMAIN pkgs : o[n] \in Orders(pkgs[n])}

\* lines 113-120 for one package, versions iterated as version_list
Resolution(version_list) ==
    IF Len(version_list) > 1
    THEN LET sorted == ListSort(version_list)
         IN IF sorted.raised THEN Raised
            ELSE [raised |-> FALSE, list |-> <<sorted.list[Len(sorted.list)]>>]
    ELSE [raised |-> FALSE, list |-> <<version_list[1]>>]

Empty == [n \in {} |-> {}]

ResolveWithoutConflicts(pkgs, order) ==
    [raised |-> FALSE, conflicts |-> Empty,
     resolutions |-> [n \in DOMAIN pkgs |-> order[n][1]]]

\* The whole function: conflicts and resolutions, or the exception of the
\* first sort that raises.
ResolveVersionConflicts(pkgs, order) ==
    IF \E n \in DOMAIN pkgs : Resolution(order[n]).raised
    THEN [raised |-> TRUE, conflicts |-> Empty, resolutions |-> Empty]
    ELSE [raised |-> FALSE,
          conflicts |-> [n \in {m \in DOMAIN pkgs : Cardinality(pkgs[m]) > 1} |-> order[n]],
          resolutions |-> [n \in DOMAIN pkgs |-> Resolution(order[n]).list[1]]]

V_1_2_0 == <<"1", ".", "2", ".", "0">>
V_1_10_0 == <<"1", ".", "1", "0", ".", "0">>
V_2_0_0_beta == <<"2", ".", "0", ".", "0", "-", "b", "e", "t", "a">>
V_1_0_0_1 == <<"1", ".", "0", ".", "0", "-", "1">>
V_1_0_0_beta == <<"1", ".", "0", ".", "0", "-", "b", "e", "t", "a">>
V_1_0_0 == <<"1", ".", "0", ".", "0">>
V_1_0 == <<"1", ".", "0">>
V_1_00 == <<"1", ".", "0", "0">>

VersionPool ==
    {V_1_2_0, V_1_10_0, V_2_0_0_beta, V_1_0_0_1, V_1_0_0_beta, V_1_0_0, V_1_0, V_1_00}

\* The (name, version) pairs an extraction run can have observed.
MaxObserved == 4
Observations == {o \in SUBSET (PackageNames \X VersionPool) : Cardinality(o) \in 1..MaxObserved}

\* self.packages after the pairs were observed
PackagesOf(observed) ==
    [n \in {o[1] : o \in observed} |-> {o[2] : o \in {x \in observed : x[1] = n}}]

(***************************************************************************)
(* package-version-extractor.py: categorize_package                        *)
(* Package names and prefixes are strings; the table keeps the order of    *)
(* the dict literal, which is the order its items are iterated in.         *)
(***************************************************************************)
Category(category, patterns) == [category |-> category, patterns |-> patterns]

package_categories ==
    << Category("AWS SDK", <<"AWSSDK.", "Amazon.">>),
       Category("Microsoft Extensions", <<"Microsoft.Extensions.">>),
       Category("Microsoft Core", <<"Microsoft.NETFramework", "Microsoft.Bcl", "System.">>),
       Category("Testing", <<"FluentAssertions", "Castle.Core", "Moq", "NUnit", "xunit">>),
       Category("Logging", <<"Common.Logging", "log4net", "NLog", "Serilog">>),
       Category("JSON", <<"Newtonsoft.Json", "System.Text.Json">>),
       Category("Utilities", <<"ZstdSharp", "Fare", "AutoMapper">>) >>

StartsWithExactly(s, prefix) == s = prefix

\* package_name.startswith(pattern)
StartsWith(s, prefix) ==
    Len(prefix) <= Len(s) /\ SubSeq(s, 1, Len(prefix)) = prefix

\* for pattern in patterns: if package_name.startswith(pattern): return category
RECURSIVE MatchesFrom(_, _, _)
MatchesFrom(package_name, patterns, j) ==
    IF j > Len(patterns) THEN FALSE
    ELSE IF StartsWith(package_name, patterns[j]) THEN TRUE
         ELSE MatchesFrom(package_name, patterns, j + 1)

\* for category, patterns in self.package_categories.items(): ...; return 'Other'
RECURSIVE CategorizeFrom(_, _)
CategorizeFrom(package_name, i) ==
    IF i > Len(package_categories) THEN "Other"
    ELSE IF MatchesFrom(package_name, package_categories[i].patterns, 1)
         THEN package_categories[i].category
         ELSE CategorizeFrom(package_name, i + 1)

CategorizePackage(package_name) == CategorizeFrom(package_name, 1)

\* The names categorized: every prefix of the table, prefixes cut short or
\* in another case, and names of no category, each followed by a tail.
NameStems ==
    UNION {{package_categories[i].patterns[j] :
                j \in 1..Len(package_categories[i].patterns)} :
                   i \in 1..Len(package_categories)}
  \cup {"xunit", "Moq", "NLog", "Serilog", "NUnit", "AWSSDK", "awssdk.", "System",
        "system.", "Microsoft.", "Microsoft.Extensions", "Xunit", "nunit", "My",
        "Contoso.System.", ""}

NameTails == {"", "Core", ".Json", "S3", "X"}

PackageNamePool == {stem \o tail : stem \in NameStems, tail \in NameTails}

NotCategorized == [package_name |-> "", category |-> "", called |-> FALSE]

(***************************************************************************)
(* package-version-extractor.py: find_and_extract and main                 *)
(* A project file is what ET.parse makes of it: it raises, or it yields    *)
(* the (id, version) attribute pairs of the package elements, "" and <<>>  *)
(* for an attribute that is missing.                                       *)
(***************************************************************************)
ParsedFile(name, parses, pairs) == [name |-> name, parses |-> parses, packages |-> pairs]

ConfigFiles ==
    { ParsedFile("p/packages.config", TRUE, <<<<"A", V_1_2_0>>, <<"B", V_1_0>>>>),
      ParsedFile("q/packages.config", FALSE, <<>>),
      ParsedFile("r/packages.config", TRUE, <<<<"A", V_1_0_0_1>>, <<"B", <<>>>>>>) }

CsprojFiles ==
    { ParsedFile("a.csproj", TRUE, <<<<"A", V_1_10_0>>, <<"A", V_1_2_0>>>>),
      ParsedFile("b.csproj", FALSE, <<>>),
      ParsedFile("c.csproj", TRUE, <<<<"A", V_1_0_0_beta>>, <<"", V_1_0>>>>),
      ParsedFile("d.csproj", TRUE, <<>>),
      ParsedFile("e.csproj", TRUE, <<<<"Moq", V_1_0>>, <<"R&D", V_1_0>>>>) }

MaxFound == 2

\* rglob(): every file once
Found(S) == {l \in SeqsUpTo(S, MaxFound) : \A i, j \in 1..Len(l) : l[i] = l[j] => i = j}

RecordVersionOnly(acc, name, pair) ==
    IF pair[1] # "" /\ pair[2] # <<>>
    THEN [acc EXCEPT !.packages =
            [n \in DOMAIN acc.packages \cup {pair[1]} |->
                IF n = pair[1]
                THEN (IF n \in DOMAIN acc.packages THEN acc.packages[n] ELSE {})
                         \cup {pair[2]}
                ELSE acc.packages[n]]]
    ELSE acc

\* lines 54-56 and 71-73: if package_id and version: add, append
Record(acc, name, pair) ==
    IF pair[1] # "" /\ pair[2] # <<>>
    THEN [packages |->
            [n \in DOMAIN acc.packages \cup {pair[1]} |->
                IF n = pair[1]
                THEN (IF n \in DOMAIN acc.packages THEN acc.packages[n] ELSE {})
                         \cup {pair[2]}
                ELSE acc.packages[n]],
          package_sources |->
            [n \in DOMAIN acc.package_sources \cup {pair[1]} |->
                IF n = pair[1]
                THEN Append(IF n \in DOMAIN acc.package_sources
                            THEN acc.package_sources[n] ELSE <<>>, name)
                ELSE acc.package_sources[n]]]
    ELSE acc

\* the loop over the package elements of one file
RECURSIVE RecordAll(_, _, _)
RecordAll(acc, name, pairs) ==
    IF pairs = <<>> THEN acc
    ELSE RecordAll(Record(acc, name, Head(pairs)), name, Tail(pairs))

(***************************************************************************)
(* package-version-extractor.py: generate_directory_packages_props and     *)
(* generate_report.  The generated file is its PropertyGroup and its       *)
(* ItemGroup elements in the order of the lines; an attribute value is the *)
(* text written between the quotes.                                        *)
(***************************************************************************)
\* The characters of names and categories, in the order of their code points
Alphabet == " &.0123456789ABCDEFGHIJKLMNOPQRSTUVWXYZabcdefghijklmnopqrstuvwxyz"

CodePoint(c) == CHOOSE i \in 1..Len(Alphabet) : SubSeq(Alphabet, i, i) = c

\* str < str of two names
RECURSIVE TextLess(_, _, _)
TextLess(a, b, i) ==
    IF i > Len(a) \/ i > Len(b) THEN Len(a) < Len(b)
    ELSE IF SubSeq(a, i, i) = SubSeq(b, i, i) THEN TextLess(a, b, i + 1)
         ELSE CodePoint(SubSeq(a, i, i)) < CodePoint(SubSeq(b, i, i))

\* sorted(...) of distinct strings
RECURSIVE SortedTexts(_)
SortedTexts(S) ==
    IF S = {} THEN <<>>
    ELSE LET least == CHOOSE x \in S : \A y \in S \ {x} : TextLess(x, y, 1)
         IN <<least>> \o SortedTexts(S \ {least})

\* f'{version}': the characters of the version, one after the other
RECURSIVE VersionText(_)
VersionText(v) == IF v = <<>> THEN "" ELSE Head(v) \o VersionText(Tail(v))

\* lines 129-136 and 198-201: the names of each category; the props file
\* has them sorted by name
CategorizedPackages(names) ==
    [category \in {CategorizePackage(n) : n \in names} |->
        SortedTexts({n \in names : CategorizePackage(n) = category})]

\* lines 149-152 and 157-160: one ItemGroup with its PackageVersion lines
ItemGroup(category, names, resolved) ==
    [label |-> category,
     entries |-> [i \in 1..Len(names) |->
                     [include |-> names[i], version |-> VersionText(resolved[names[i]])]]]

\* generate_directory_packages_props, lines 128-163
GenerateDirectoryPackagesProps(resolved) ==
    LET categorized_packages == CategorizedPackages(DOMAIN resolved)
        ordered == SelectSeq(SortedTexts(DOMAIN categorized_packages),
                             LAMBDA category : category # "Other")
    IN [flag |-> "true",
        groups |->
            [i \in 1..Len(ordered) |->
                ItemGroup(ordered[i], categorized_packages[ordered[i]], resolved)]
            \o (IF "Other" \in DOMAIN categorized_packages
                THEN <<ItemGroup("Other", categorized_packages["Other"], resolved)>>
                ELSE <<>>)]

\* generate_report, lines 197-207: the lines of PACKAGES BY CATEGORY
ReportCategories(pkgs) ==
    LET categorized_packages == CategorizedPackages(DOMAIN pkgs)
        ordered == SortedTexts(DOMAIN categorized_packages)
    IN [i \in 1..Len(ordered) |->
           [category |-> ordered[i], count |-> Len(categorized_packages[ordered[i]])]]

NoOutput == [props |-> [flag |-> "", groups |-> <<>>], report |-> <<>>]

ExtractorIdle ==
    /\ config_files = <<>>
    /\ csproj_files = <<>>
    /\ packages = Empty
    /\ package_sources = Empty
    /\ conflicts = Empty
    /\ resolutions = Empty
    /\ generated = NoOutput
    /\ categorized = NotCategorized

\* sys.argv[1:] has the flag
HasFlag(a, flag) == \E i \in 1..Len(a) : a[i] = flag

\* main, lines 225-234: --directory, --output and --report keep their
\* defaults
ExtractorCommandLines ==
    {<<>>, <<"--dry-run">>, <<"--export-data", "data.json">>,
     <<"--dry-run", "--export-data", "data.json">>}

\* main, lines 246-268: the files written after the extraction
ExtractorOutputs(a) ==
    IF HasFlag(a, "--dry-run") THEN <<>>
    ELSE <<"write Directory.Packages.props", "write package-extraction-report.txt">>
             \o (IF HasFlag(a, "--export-data") THEN <<"write data.json">> ELSE <<>>)

\* main up to the loops of find_and_extract: the files are found
ExtractorMain ==
    /\ tool = "extractor"
    /\ pc = "start"
    /\ config_files' \in Found(ConfigFiles)
    /\ csproj_files' \in Found(CsprojFiles)
    /\ argv' \in ExtractorCommandLines
    /\ pc' = "loop" /\ idx' = 1
    /\ trail' = <<"discover">>
    /\ UNCHANGED <<packages, package_sources, conflicts, resolutions, generated,
                   categorized, tool, exit_code, caught, log_files, results, transformVars,
                   validatorVars, updaterVars>>

\* extract_from_packages_config and extract_from_csproj: the try body and
\* the except clause
Extract(file) ==
    /\ last' = [NoFile EXCEPT !.file = file.name, !.read = file.parses,
                              !.raised = ~file.parses,
                              !.kept = <<packages, package_sources>>]
    /\ IF file.parses
       THEN LET acc == RecordAll([packages |-> packages,
                                  package_sources |-> package_sources],
                                 file.name, file.packages)
            IN /\ packages' = acc.packages
               /\ package_sources' = acc.package_sources
               /\ pc' = "loop" /\ caught' = caught
       ELSE /\ UNCHANGED <<packages, package_sources>>
            /\ pc' = OnException /\ caught' = caught + 1
    /\ idx' = idx + 1
    /\ UNCHANGED <<config_files, csproj_files, conflicts, resolutions, generated,
                   categorized, tool, exit_code, trail, transformVars, validatorVars,
                   analyzerVars, linesep, disk, backups, args, project_files,
                   changes_made, runs, run_start, previous>>

\* one turn of "for config_file in config_files"
ExtractFromPackagesConfig ==
    /\ tool = "extractor"
    /\ pc = "loop"
    /\ idx <= Len(config_files)
    /\ Extract(config_files[idx])

\* one turn of "for csproj_file in csproj_files"
ExtractFromCsproj ==
    /\ tool = "extractor"
    /\ pc = "loop"
    /\ idx > Len(config_files)
    /\ idx <= Len(config_files) + Len(csproj_files)
    /\ Extract(csproj_files[idx - Len(config_files)])

\* main after find_and_extract: no packages, exit 1; else the props file
\* and the report are generated from resolve_version_conflicts(), whose
\* exception nothing catches; in a dry run they are generated and printed
ExtractorReport ==
    /\ tool = "extractor"
    /\ pc = "loop"
    /\ idx > Len(config_files) + Len(csproj_files)
    /\ IF packages = Empty
       THEN /\ pc' = "exit" /\ exit_code' = 1
            /\ UNCHANGED <<conflicts, resolutions, generated, trail>>
       ELSE \E order \in IterationOrders(packages) :
               LET resolved == ResolveVersionConflicts(packages, order)
               IN IF resolved.raised
                  THEN /\ pc' = "traceback" /\ exit_code' = 1
                       /\ UNCHANGED <<conflicts, resolutions, generated, trail>>
                  ELSE /\ pc' = "done" /\ exit_code' = 0
                       /\ conflicts' = resolved.conflicts
                       /\ resolutions' = resolved.resolutions
                       /\ generated' =
                              [props |-> GenerateDirectoryPackagesProps(resolved.resolutions),
                               report |-> ReportCategories(packages)]
                       /\ trail' = trail \o ExtractorOutputs(argv)
    /\ UNCHANGED <<config_files, csproj_files, packages, package_sources,
                   categorized, tool, idx, caught, transformVars, validatorVars,
                   updaterVars, analyzerVars>>

(***************************************************************************)
(* build-log-analyzer.py: analyze_log, analyze_directory and main          *)
(* A log is the matches its text holds: the error code and the text of the *)
(* first capture group, in the order of the text.                          *)
(***************************************************************************)
error_patterns == <<"NU1103", "NU1605", "NU1202", "NU1010", "NU1008", "NU1506", "MSB4062">>

\* the capture groups of the pattern of the code
Groups(code) ==
    CASE code = "NU1103" -> 2 [] code = "NU1605" -> 3 [] code = "NU1202" -> 3
      [] code = "NU1010" -> 1 [] code = "NU1008" -> 2 [] code = "NU1506" -> 1
      [] code = "MSB4062" -> 1

Match(code, first) == [code |-> code, first |-> first]
Log(name, readable, matches) == [name |-> name, readable |-> readable, matches |-> matches]

LogFiles ==
    { Log("build.log", TRUE, <<Match("NU1103", "A"), Match("NU1010", "B")>>),
      Log("locked.log", FALSE, <<>>),
      Log("clean.txt", TRUE, <<>>),
      Log("restore.txt", TRUE, <<Match("NU1010", "A")>>) }

\* re.findall(pattern, content): the matches of one code
FindAll(log, code) == SelectSeq(log.matches, LAMBDA m : m.code = code)

\* analyze_log, lines 67-95, for a log that was read
AnalyzeLog(log) ==
    LET found == {i \in 1..Len(error_patterns) : FindAll(log, error_patterns[i]) # <<>>}
    IN [file |-> log.name,
        summary |-> [code \in {error_patterns[i] : i \in found} |->
                        Len(FindAll(log, code))],
        total_errors |-> Len(log.matches),
        \* findall returns a tuple only for a pattern of several groups
        packages_affected |->
            {log.matches[i].first : i \in {j \in 1..Len(log.matches) :
                                              Groups(log.matches[j].code) > 1}}]

AnalyzerIdle ==
    /\ argv = <<>>
    /\ log_files = <<>>
    /\ results = <<>>

CommandLines ==
    {<<>>, <<"--directory">>, <<"--directory", "logs">>, <<"build.log">>}

\* main up to the analysis: usage errors exit 1; a directory is globbed
\* (*.log, then *.txt); a single path is analyzed alone
AnalyzerMain ==
    /\ tool = "analyzer"
    /\ pc = "start"
    /\ \E a \in CommandLines, found \in Found(LogFiles), single \in LogFiles :
        /\ argv' = a
        /\ IF Len(a) = 0 \/ (a[1] = "--directory" /\ Len(a) < 2)
           THEN /\ found = <<>> /\ single.name = "build.log"
                /\ log_files' = <<>>
                /\ pc' = "exit" /\ exit_code' = 1
           ELSE IF a[1] = "--directory"
                THEN /\ single.name = "build.log"
                     /\ log_files' = found
                     /\ pc' = "loop" /\ exit_code' = 0
                ELSE /\ found = <<>>
                     /\ log_files' = <<single>>
                     /\ pc' = "loop" /\ exit_code' = 0
    /\ idx' = 1
    /\ trail' = IF Len(argv') = 2 THEN <<"discover">> ELSE <<>>
    /\ UNCHANGED <<results, tool, caught, transformVars, validatorVars,
                   updaterVars, extractorVars>>

\* analyze_log for the next log, and lines 110-111: a result is appended,
\* None is not
AnalyzeLogTurn ==
    /\ tool = "analyzer"
    /\ pc = "loop"
    /\ idx <= Len(log_files)
    /\ LET log == log_files[idx]
       IN /\ last' = [NoFile EXCEPT !.file = log.name, !.read = log.readable,
                                   !.raised = ~log.readable, !.kept = results]
          /\ IF log.readable
             THEN /\ results' = Append(results, AnalyzeLog(log))
                  /\ pc' = "loop" /\ caught' = caught
             ELSE /\ UNCHANGED results
                  /\ pc' = OnException /\ caught' = caught + 1
    /\ idx' = idx + 1
    /\ UNCHANGED <<argv, log_files, tool, exit_code, trail, transformVars,
                   validatorVars, extractorVars, linesep, disk, backups, args,
                   project_files, changes_made, runs, run_start, previous>>

\* main, lines 214-231: no results, exit 1; else the reports are written
AnalyzerReport ==
    /\ tool = "analyzer"
    /\ pc = "loop"
    /\ idx > Len(log_files)
    /\ IF results = <<>>
       THEN pc' = "exit" /\ exit_code' = 1 /\ trail' = trail
       ELSE /\ pc' = "done" /\ exit_code' = 0
            /\ trail' = trail \o <<"write build-analysis-results.json",
                                    "write build-analysis-summary.txt">>
    /\ UNCHANGED <<argv, log_files, results, tool, idx, caught, transformVars,
                   validatorVars, updaterVars, extractorVars>>

(***************************************************************************)
(* migration-validator.py                                                  *)
(* A file is what ET.parse makes of it: it raises, or it yields the        *)
(* (Include, Version) attribute pairs of its package elements, "" for an   *)
(* attribute that is missing or empty.                                     *)
(***************************************************************************)
\* Directory.Packages.props: flag is the text of ManagePackageVersionsCentrally
\* ("" when no such element), versions the PackageVersion elements in order
PropsFile(exists, parses, flag, versions) ==
    [exists |-> exists, parses |-> parses, flag |-> flag, versions |-> versions]

VersionLists ==
    { <<>>,
      <<<<"A", "1.0.0">>>>,
      <<<<"A", "1.0.0">>, <<"B", "2.0.0">>>>,
      <<<<"A", "1.0.0">>, <<"A", "2.0.0">>>>,
      <<<<"A", "1.0.0">>, <<"B", "">>>>,
      <<<<"A", "1.0.0">>, <<"A", "">>>> }

PropsFiles ==
    {PropsFile(FALSE, FALSE, "", <<>>), PropsFile(TRUE, FALSE, "", <<>>)}
  \cup {PropsFile(TRUE, TRUE, flag, versions) :
            flag \in {"true", "false", ""}, versions \in VersionLists}

\* A project file: references are its PackageReference elements, legacy
\* says that a packages.config stands in its directory
Project(name, parses, references, legacy) ==
    [name |-> name, parses |-> parses, references |-> references, legacy |-> legacy]

Projects ==
    { Project("a.csproj", TRUE, <<<<"A", "">>>>, FALSE),
      Project("b.csproj", TRUE, <<<<"A", "1.0.0">>>>, FALSE),
      Project("c.csproj", TRUE, <<<<"B", "">>>>, TRUE),
      Project("d.csproj", FALSE, <<>>, FALSE),
      Project("e.csproj", TRUE, <<<<"", "1.0.0">>>>, FALSE),
      Project("f.csproj", TRUE, <<>>, FALSE) }

\* subprocess.run(['dotnet', ...]): it raises, or it returns the exit
\* status and the captured stderr
ToolOutcome(raised, returncode, stderr) ==
    [raised |-> raised, returncode |-> returncode, stderr |-> stderr]

Succeeds == ToolOutcome("", 0, "")

ToolOutcomes ==
    { Succeeds,
      ToolOutcome("", 1, "error NU1008"),
      ToolOutcome("TimeoutExpired", 0, ""),
      ToolOutcome("FileNotFoundError", 0, "") }

NoSolution ==
    [props |-> PropsFile(FALSE, FALSE, "", <<>>), projects |-> <<>>,
     restore |-> Succeeds, build |-> Succeeds]

Result(status, details) == [status |-> status, details |-> details]

\* __init__, lines 30-36
Unknown ==
    [directory_packages_props |-> Result("UNKNOWN", <<>>),
     project_files |-> Result("UNKNOWN", <<>>),
     package_consistency |-> Result("UNKNOWN", <<>>),
     build_validation |-> Result("UNKNOWN", <<>>),
     overall |-> [status |-> "UNKNOWN", score |-> 0]]

\* lines 74-84: the loop over the PackageVersion elements
RECURSIVE ScanVersions(_, _)
ScanVersions(versions, acc) ==
    IF versions = <<>> THEN acc
    ELSE LET include == Head(versions)[1]
             version == Head(versions)[2]
         IN ScanVersions(Tail(versions),
                IF include # "" /\ version # ""
                THEN IF include \in acc.package_versions
                     THEN [acc EXCEPT !.duplicates = Append(@, include)]
                     ELSE [acc EXCEPT !.package_versions = @ \cup {include}]
                ELSE acc)

PropsStatusLenient(duplicates, manage_centrally) ==
    IF duplicates # <<>> \/ ~manage_centrally
    THEN "WARN"
    ELSE "PASS"

\* lines 91-94
PropsStatus(duplicates, manage_centrally) ==
    IF duplicates # <<>> \/ ~manage_centrally
    THEN (IF duplicates = <<>> THEN "WARN" ELSE "FAIL")
    ELSE "PASS"

\* validate_directory_packages_props: the result recorded and the names
\* added to packages_in_props
PropsValidation(props) ==
    IF ~props.exists
    THEN [result |-> Result("FAIL", <<"Directory.Packages.props file not found">>),
          packages |-> {}]
    ELSE IF ~props.parses
    THEN [result |-> Result("FAIL", <<"Error parsing Directory.Packages.props">>),
          packages |-> {}]
    ELSE LET manage_centrally == props.flag = "true"
             scan == ScanVersions(props.versions,
                                  [package_versions |-> {}, duplicates |-> <<>>])
         IN [result |->
               Result(PropsStatus(scan.duplicates, manage_centrally),
                      (IF manage_centrally THEN <<>>
                       ELSE <<"ManagePackageVersionsCentrally property not set to true">>)
                      \o (IF scan.duplicates # <<>>
                          THEN <<"Duplicate PackageVersion entries">> ELSE <<>>)
                      \o <<"Found PackageVersion entries">>),
             packages |-> scan.package_versions]

\* lines 127-136: the loop over the PackageReference elements of a file
RECURSIVE ScanReferences(_, _)
ScanReferences(references, acc) ==
    IF references = <<>> THEN acc
    ELSE LET include == Head(references)[1]
             version == Head(references)[2]
         IN ScanReferences(Tail(references),
                IF include # ""
                THEN IF version # ""
                     THEN [acc EXCEPT !.with_version = Append(@, <<include, version>>)]
                     ELSE [acc EXCEPT !.without_version = Append(@, include),
                                      !.packages = @ \cup {include}]
                ELSE acc)

\* lines 118-147: the loop over the project files
RECURSIVE ScanProjects(_, _)
ScanProjects(projects, acc) ==
    IF projects = <<>> THEN acc
    ELSE LET project == Head(projects)
         IN ScanProjects(Tail(projects),
                IF ~project.parses
                THEN [acc EXCEPT !.issues = Append(@, project.name \o ": Error parsing")]
                ELSE LET scan == ScanReferences(project.references,
                                     [with_version |-> <<>>, without_version |-> <<>>,
                                      packages |-> acc.packages])
                     IN [packages |-> scan.packages,
                         issues |-> acc.issues
                            \o (IF scan.with_version # <<>>
                                THEN <<project.name \o ": PackageReference elements still have Version attributes">>
                                ELSE <<>>)
                            \o (IF project.legacy
                                THEN <<project.name \o ": packages.config still exists">>
                                ELSE <<>>)])

\* validate_project_files after the files were found
ProjectsValidation(projects, in_projects) ==
    LET scan == ScanProjects(projects, [packages |-> in_projects, issues |-> <<>>])
    IN [result |->
          IF scan.issues # <<>>
          THEN Result("FAIL", <<"Validated project files">> \o scan.issues)
          ELSE Result("PASS", <<"Validated project files",
                                "All project files are CPM compliant">>),
        packages |-> scan.packages]

\* validate_package_consistency
ConsistencyValidation(in_props, in_projects) ==
    LET missing_in_props == in_projects \ in_props
        unused_in_props == in_props \ in_projects
        details == (IF unused_in_props # {}
                    THEN <<"Packages defined in Directory.Packages.props but not used">>
                    ELSE <<>>)
                   \o <<"Packages in Directory.Packages.props",
                        "Packages referenced in projects">>
    IN IF missing_in_props # {}
       THEN Result("FAIL", details
                \o <<"Packages in projects but missing from Directory.Packages.props">>)
       ELSE IF unused_in_props # {}
            THEN Result("WARN", details)
            ELSE Result("PASS", details
                     \o <<"Package consistency validated successfully">>)

BuildAlways(restore) == TRUE

\* lines 220-224: dotnet build runs when dotnet restore returned 0
BuildAllowed(restore) == restore.returncode = 0

\* lines 251-262: the result recorded when subprocess.run raises
RaisedResult(outcome) ==
    IF outcome.raised = "TimeoutExpired"
    THEN Result("FAIL", <<"Build validation timed out">>)
    ELSE Result("FAIL", <<"Build validation error: " \o outcome.raised>>)

\* validate_build: the result recorded and the processes started
BuildValidation(skip_build, restore, build) ==
    IF skip_build
    THEN [result |-> Result("SKIP", <<"Build validation skipped">>), ran |-> <<>>]
    ELSE IF restore.raised # ""
    THEN [result |-> RaisedResult(restore), ran |-> <<"dotnet restore">>]
    ELSE IF ~BuildAllowed(restore)
    THEN [result |-> Result("FAIL", <<"dotnet restore failed",
                                      "Error: " \o restore.stderr>>),
          ran |-> <<"dotnet restore">>]
    ELSE IF build.raised # ""
    THEN [result |-> RaisedResult(build), ran |-> <<"dotnet restore", "dotnet build">>]
    ELSE IF build.returncode # 0
    THEN [result |-> Result("FAIL", <<"dotnet restore succeeded", "dotnet build failed",
                                      "Error: " \o build.stderr>>),
          ran |-> <<"dotnet restore", "dotnet build">>]
    ELSE [result |-> Result("PASS", <<"dotnet restore succeeded",
                                      "dotnet build succeeded">>),
          ran |-> <<"dotnet restore", "dotnet build">>]

\* calculate_overall_score, lines 266-273
weights ==
    [directory_packages_props |-> 25, project_files |-> 30,
     package_consistency |-> 25, build_validation |-> 20]

StatusScoreFlat(status) == 100

\* status_scores.get(status, 0)
StatusScore(status) ==
    CASE status = "PASS" -> 100
      [] status = "WARN" -> 75
      [] OTHER -> 0

\* lines 275-285: total_score / total_weight, in hundredths; the weights
\* add up to 100 and the scores are multiples of 25, so the quotient has no
\* more than two decimals
OverallScore(found) ==
    LET total_score == StatusScore(found.directory_packages_props.status) * weights.directory_packages_props
                       + StatusScore(found.project_files.status) * weights.project_files
                       + StatusScore(found.package_consistency.status) * weights.package_consistency
                       + StatusScore(found.build_validation.status) * weights.build_validation
        total_weight == weights.directory_packages_props + weights.project_files
                        + weights.package_consistency + weights.build_validation
    IN (total_score * 100) \div total_weight

\* lines 287-294, on hundredths
OverallStatus(overall_score) ==
    IF overall_score >= 9000 THEN "EXCELLENT"
    ELSE IF overall_score >= 7500 THEN "GOOD"
    ELSE IF overall_score >= 5000 THEN "NEEDS_WORK"
    ELSE "POOR"

\* round(overall_score, 1): hundredths to tenths, a half goes to the even
\* tenth (the scores with a 5 in the second decimal end in .25 or .75 and
\* are exact as floats)
Round1(overall_score) ==
    LET q == overall_score \div 10
        r == overall_score % 10
    IN IF r > 5 \/ (r = 5 /\ q % 2 = 1) THEN q + 1 ELSE q

ValidatorCommandLines ==
    {<<>>, <<"--skip-build">>, <<"--output", "report.txt">>,
     <<"--skip-build", "--output", "report.txt">>}

ValidatorIdle ==
    /\ solution = NoSolution
    /\ validation_results = Unknown
    /\ packages_in_props = {}
    /\ packages_in_projects = {}

ValidatorFrame ==
    UNCHANGED <<tool, idx, caught, argv, solution, log_files, results,
                transformVars, updaterVars, extractorVars>>

\* main, lines 373-384: the command line is parsed; the solution directory
\* is what the stages will find in it
ValidatorMain ==
    /\ tool = "validator"
    /\ pc = "start"
    /\ \E a \in ValidatorCommandLines, props \in PropsFiles,
          projects \in Found(Projects), restore \in ToolOutcomes,
          build \in ToolOutcomes :
        /\ HasFlag(a, "--skip-build") => restore = Succeeds
        /\ restore # Succeeds => build = Succeeds
        /\ argv' = a
        /\ solution' = [props |-> props, projects |-> projects,
                        restore |-> restore, build |-> build]
    /\ pc' = "props"
    /\ UNCHANGED <<tool, idx, caught, exit_code, trail, log_files, results,
                   validation_results, packages_in_props, packages_in_projects,
                   transformVars, updaterVars, extractorVars>>

ValidateDirectoryPackagesProps ==
    /\ tool = "validator"
    /\ pc = "props"
    /\ LET validation == PropsValidation(solution.props)
       IN /\ validation_results' =
                 [validation_results EXCEPT !.directory_packages_props = validation.result]
          /\ packages_in_props' = packages_in_props \cup validation.packages
    /\ pc' = "projects"
    /\ UNCHANGED <<packages_in_projects, exit_code, trail>>
    /\ ValidatorFrame

ValidateProjectFiles ==
    /\ tool = "validator"
    /\ pc = "projects"
    /\ LET validation == ProjectsValidation(solution.projects, packages_in_projects)
       IN /\ validation_results' =
                 [validation_results EXCEPT !.project_files = validation.result]
          /\ packages_in_projects' = validation.packages
    /\ trail' = Append(trail, "discover")
    /\ pc' = "consistency"
    /\ UNCHANGED <<packages_in_props, exit_code>>
    /\ ValidatorFrame

ValidatePackageConsistency ==
    /\ tool = "validator"
    /\ pc = "consistency"
    /\ validation_results' =
           [validation_results EXCEPT !.package_consistency =
                ConsistencyValidation(packages_in_props, packages_in_projects)]
    /\ pc' = "build"
    /\ UNCHANGED <<packages_in_props, packages_in_projects, exit_code, trail>>
    /\ ValidatorFrame

ValidateBuild ==
    /\ tool = "validator"
    /\ pc = "build"
    /\ LET validation == BuildValidation(HasFlag(argv, "--skip-build"),
                                         solution.restore, solution.build)
       IN /\ validation_results' =
                 [validation_results EXCEPT !.build_validation = validation.result]
          /\ trail' = trail \o validation.ran
    /\ pc' = "report"
    /\ UNCHANGED <<packages_in_props, packages_in_projects, exit_code>>
    /\ ValidatorFrame

\* generate_report with calculate_overall_score, and main, lines 400-414
ValidatorReport ==
    /\ tool = "validator"
    /\ pc = "report"
    /\ LET overall_score == OverallScore(validation_results)
           overall_status == OverallStatus(overall_score)
       IN /\ validation_results' =
                 [validation_results EXCEPT !.overall =
                      [status |-> overall_status, score |-> Round1(overall_score)]]
          /\ IF overall_status \in {"EXCELLENT", "GOOD"}
             THEN pc' = "done" /\ exit_code' = 0
             ELSE pc' = "exit" /\ exit_code' = 1
    /\ trail' = IF HasFlag(argv, "--output")
                THEN Append(trail, "write report.txt") ELSE trail
    /\ UNCHANGED <<packages_in_props, packages_in_projects>>
    /\ ValidatorFrame

Init ==
    /\ pc = "start" /\ idx = 0 /\ exit_code = 0 /\ caught = 0 /\ trail = <<>>
    /\ ValidatorIdle
    /\ document = <<>> /\ original_content = <<>> /\ modified_content = <<>>
    /\ applied = NotApplied
    /\ ExtractorIdle
    /\ AnalyzerIdle
    /\ tool \in {"updater", "extractor", "analyzer", "validator"}
    /\ IF tool = "updater"
       THEN /\ linesep \in {Nl, CrLf}
            /\ disk \in [Files -> [content : DiskContents, mode : Modes]]
            /\ backups = [f \in Files |-> NoBackup]
            /\ args = NoArgs
            /\ project_files = <<>>
            /\ changes_made = <<>>
            /\ runs = 0
            /\ run_start = [disk |-> disk, backups |-> backups]
            /\ previous = NoRun
            /\ last = NoFile
       ELSE UpdaterIdle

Next ==
    \/ UpdaterMain
    \/ RemovePackageVersions
    \/ AddGenerateAssemblyInfoTurn
    \/ RemovePackageReference
    \/ AddPropertyTurn
    \/ GenerateSummary
    \/ ExtractorMain
    \/ ExtractFromPackagesConfig
    \/ ExtractFromCsproj
    \/ ExtractorReport
    \/ AnalyzerMain
    \/ AnalyzeLogTurn
    \/ AnalyzerReport
    \/ ValidatorMain
    \/ ValidateDirectoryPackagesProps
    \/ ValidateProjectFiles
    \/ ValidatePackageConsistency
    \/ ValidateBuild
    \/ ValidatorReport

Spec == Init /\ [][Next]_vars

(***************************************************************************)
(* The four operations as transformations of one text                     *)
(***************************************************************************)
TransformInit ==
    /\ UpdaterIdle
    /\ ExtractorIdle
    /\ AnalyzerIdle
    /\ ValidatorIdle
    /\ tool = "transform" /\ pc = "start" /\ idx = 0 /\ exit_code = 0 /\ caught = 0
    /\ trail = <<>>
    /\ document \in Documents
    /\ original_content = DocumentText(document)
    /\ modified_content = original_content
    /\ applied = NotApplied

TRemovePackageVersions ==
    /\ applied.operation = "none"
    /\ modified_content' = StripVersions(original_content)
    /\ applied' = [NotApplied EXCEPT !.operation = "remove-package-versions",
                                     !.times = 1]
    /\ UNCHANGED <<document, original_content, updaterVars, extractorVars, analyzerVars,
                   validatorVars, controlVars>>

\* The operation run again, on the text it wrote the first time.
TRemovePackageVersionsAgain ==
    /\ applied.operation = "remove-package-versions"
    /\ applied.times = 1
    /\ original_content' = modified_content
    /\ modified_content' = StripVersions(modified_content)
    /\ applied' = [applied EXCEPT !.times = 2]
    /\ UNCHANGED <<document, updaterVars, extractorVars, analyzerVars,
                   validatorVars, controlVars>>

TAddGenerateAssemblyInfo ==
    /\ applied.operation = "none"
    /\ modified_content' = AddGenerateAssemblyInfo(original_content)
    /\ applied' = [NotApplied EXCEPT !.operation = "add-generate-assembly-info",
                                     !.times = 1]
    /\ UNCHANGED <<document, original_content, updaterVars, extractorVars, analyzerVars,
                   validatorVars, controlVars>>

TRemovePackage ==
    /\ applied.operation = "none"
    /\ \E package_name \in PackageNames :
        /\ modified_content' = RemoveReference(original_content, package_name)
        /\ applied' = [NotApplied EXCEPT !.operation = "remove-package",
                                         !.package_name = package_name,
                                         !.times = 1]
    /\ UNCHANGED <<document, original_content, updaterVars, extractorVars, analyzerVars,
                   validatorVars, controlVars>>

TAddProperty ==
    /\ applied.operation = "none"
    /\ \E property_name \in PropertyNames, property_value \in PropertyValues :
        /\ modified_content' = AddProperty(original_content, property_name, property_value)
        /\ applied' = [NotApplied EXCEPT !.operation = "add-property",
                                         !.property_name = property_name,
                                         !.property_value = property_value,
                                         !.times = 1]
    /\ UNCHANGED <<document, original_content, updaterVars, extractorVars, analyzerVars,
                   validatorVars, controlVars>>

TransformNext ==
    \/ TRemovePackageVersions
    \/ TRemovePackageVersionsAgain
    \/ TAddGenerateAssemblyInfo
    \/ TRemovePackage
    \/ TAddProperty

SpecTransform == TransformInit /\ [][TransformNext]_vars

(***************************************************************************)
(* What the operations are stated to do, element by element                *)
(***************************************************************************)
HasAttr(e, n) == \E i \in 1..Len(e.attrs) : e.attrs[i][2] = n
IsVersionAttr(a) == a[2] = "Version"
IsPackageRef(e) == e.kind = "PackageReference"
References(e, package_name) ==
    IsPackageRef(e) /\ \E i \in 1..Len(e.attrs) : e.attrs[i] = Attr("Include", package_name)

\* The element with no Version attribute left, its form kept.
WithoutVersion(e) ==
    IF IsPackageRef(e) /\ HasAttr(e, "Include") /\ HasAttr(e, "Version")
    THEN [e EXCEPT !.attrs = SelectSeq(e.attrs, LAMBDA a : ~IsVersionAttr(a))]
    ELSE e

RECURSIVE MapWithoutVersion(_)
MapWithoutVersion(doc) ==
    IF doc = <<>> THEN <<>>
    ELSE <<WithoutVersion(Head(doc))>> \o MapWithoutVersion(Tail(doc))

\* The document without the elements that reference package_name.
WithoutPackage(doc, package_name) ==
    SelectSeq(doc, LAMBDA e : ~References(e, package_name))

Declares(doc, name) ==
    \E i \in 1..Len(doc) :
        /\ doc[i].kind = "PropertyGroup"
        /\ \E j \in 1..Len(doc[i].props) : doc[i].props[j][1] = name

HasMarker(doc) ==
    \E i \in 1..Len(doc) :
        doc[i].kind = "Compile" /\ doc[i].attrs = <<Attr("Include", SharedAssemblyInfoPath)>>

PropertyGroupPlaces(doc) == {i \in 1..Len(doc) : doc[i].kind = "PropertyGroup"}

\* The property as the first child of the first property group in
\* document order.
WithProperty(doc, name, value) ==
    LET places == PropertyGroupPlaces(doc)
    IN IF places = {} \/ Declares(doc, name) THEN doc
       ELSE LET first == CHOOSE i \in places : \A j \in places : i <= j
            IN [doc EXCEPT ![first].props = <<<<name, value>>>> \o @]

Significant(text) == SelectSeq(text, LAMBDA t : ~IsWs(t))

\* C4: the version-strip transformation is idempotent: applied to its own
\* output it returns that output unchanged.
C4_StripIdempotent ==
    (applied.operation = "remove-package-versions" /\ applied.times = 2)
        => modified_content = original_content

\* C5: after remove-package-versions every PackageReference element that had
\* an Include and a Version attribute has no Version attribute left, wherever
\* it stood; the element keeps its form and every other element is unchanged.
C5_StripRemovesEveryVersion ==
    (applied.operation = "remove-package-versions" /\ applied.times = 1)
        => modified_content = DocumentText(MapWithoutVersion(document))

\* C6: add-generate-assembly-info and add-property insert the property as
\* the first child of the first property group in document order, and change
\* nothing when the property is declared, the marker is absent or there is no
\* property group.
C6_InsertIntoFirstPropertyGroup ==
    /\ applied.operation = "add-property"
        => modified_content =
               DocumentText(WithProperty(document, applied.property_name,
                                         applied.property_value))
    /\ applied.operation = "add-generate-assembly-info"
        => modified_content =
               DocumentText(IF HasMarker(document)
                            THEN WithProperty(document, "GenerateAssemblyInfo", "false")
                            ELSE document)

\* C7: remove-package P deletes every PackageReference element named P, self
\* closing or open, deletes nothing of another element and changes nothing
\* when no element references P.
C7_RemoveDeletesEveryReference ==
    applied.operation = "remove-package"
        => /\ Significant(modified_content) =
                  Significant(DocumentText(WithoutPackage(document, applied.package_name)))
           /\ WithoutPackage(document, applied.package_name) = document
                  => modified_content = original_content

(***************************************************************************)
(* The updater's batch: no-op detection, backups, dry run                  *)
(***************************************************************************)
Processed == tool = "updater" /\ last.file # "" /\ last.read

\* C1: when the text an operation computes equals the text it read, the file
\* is not written and no backup is created for it; a backup appears only for
\* a file whose text the operation changed.
C1_UnchangedFileUntouched ==
    Processed =>
        /\ last.modified = last.text
               => /\ disk[last.file] = last.before
                  /\ backups[last.file] = last.backup_before
        /\ \A f \in Files :
               (backups[f].exists /\ ~run_start.backups[f].exists)
                   => \E i \in 1..(idx - 1) :
                          /\ project_files[i] = f
                          /\ f # last.file \/ last.modified # last.text

\* Two files in a batch that strips versions: the first is changed and
\* backed up, the second needs no change and gets no backup.
C1_Witness ==
    /\ Processed
    /\ pc = "done"
    /\ ~args.dry_run
    /\ args.operation = "remove-package-versions"
    /\ project_files = <<"a.csproj", "b.csproj">>
    /\ backups["a.csproj"].exists
    /\ disk["a.csproj"] # run_start.disk["a.csproj"]
    /\ last.file = "b.csproj"
    /\ last.before.mode = "rw"
    /\ last.modified = last.text
    /\ ~backups["b.csproj"].exists

\* C2: a file is backed up before it is written, the backup holds the content
\* the file had before its first modification, and an existing backup is
\* never written again.
C2_BackupHoldsOriginal ==
    tool = "updater" =>
        \A f \in Files :
            /\ disk[f] # run_start.disk[f] => backups[f].exists
            /\ run_start.backups[f].exists => backups[f] = run_start.backups[f]
            /\ (backups[f].exists /\ ~run_start.backups[f].exists)
                   => backups[f].content = run_start.disk[f].content

\* The run after a dry run that reached its summary, with the same command
\* line but --dry-run and the same files.
SameRunAfterDryRun ==
    /\ tool = "updater"
    /\ pc = "done"
    /\ ~args.dry_run
    /\ previous.args = [args EXCEPT !.dry_run = TRUE]
    /\ previous.project_files = project_files

DryRunWritesNothing ==
    (tool = "updater" /\ args.dry_run)
        => disk = run_start.disk /\ backups = run_start.backups

\* C3, as stated: a dry run writes no file and creates no backup, and reports
\* the changes a run without --dry-run on the same inputs reports.
C3_DryRunReportsSameChanges ==
    /\ DryRunWritesNothing
    /\ SameRunAfterDryRun => changes_made = previous.changes_made

\* C3, amended: a dry run writes no file and creates no backup; it reports
\* every file whose computed text differs from the text read, and the run
\* without --dry-run reports those of them it could write.
C3_DryRunReportsPlannedChanges ==
    /\ DryRunWritesNothing
    /\ SameRunAfterDryRun
           => changes_made = SelectSeq(previous.changes_made,
                                       LAMBDA c : run_start.disk[c.file].mode = "rw")

C3_Witness ==
    /\ SameRunAfterDryRun
    /\ Len(previous.changes_made) = 2
    /\ Len(changes_made) = 1
    /\ disk # run_start.disk

(***************************************************************************)
(* The resolver on the versions one project file can hold                  *)
(***************************************************************************)
\* The pairs of a set, one after the other
RECURSIVE SeqOf(_)
SeqOf(S) ==
    IF S = {} THEN <<>>
    ELSE LET x == CHOOSE y \in S : TRUE
         IN <<x>> \o SeqOf(S \ {x})

\* The extractor after main found one project file, a.csproj
ResolveInit ==
    /\ UpdaterIdle
    /\ AnalyzerIdle
    /\ document = <<>> /\ original_content = <<>> /\ modified_content = <<>>
    /\ applied = NotApplied
    /\ ValidatorIdle
    /\ categorized = NotCategorized
    /\ tool = "extractor" /\ pc = "loop" /\ idx = 1 /\ exit_code = 0 /\ caught = 0
    /\ trail = <<"discover">>
    /\ config_files = <<>>
    /\ \E observed \in Observations :
          csproj_files = <<ParsedFile("a.csproj", TRUE, SeqOf(observed))>>
    /\ packages = Empty
    /\ package_sources = Empty
    /\ conflicts = Empty
    /\ resolutions = Empty
    /\ generated = NoOutput

ResolveNext ==
    \/ ExtractFromCsproj
    \/ ExtractorReport

SpecResolve == ResolveInit /\ [][ResolveNext]_vars

(***************************************************************************)
(* Batch loops                                                             *)
(***************************************************************************)
\* The files of the batch of the run, in the order they are taken
Batch ==
    CASE tool = "updater" -> project_files
      [] tool = "extractor" -> config_files \o csproj_files
      [] tool = "analyzer" -> log_files
      [] OTHER -> <<>>

\* The results the run has accumulated
Accumulated ==
    CASE tool = "updater" -> changes_made
      [] tool = "extractor" -> <<packages, package_sources>>
      [] tool = "analyzer" -> results
      [] OTHER -> <<>>

IsPrefix(a, b) == Len(a) <= Len(b) /\ a = Slice(b, 1, Len(a))

\* Nothing of the earlier results is lost in the later ones
Keeps(earlier, later) ==
    IF tool = "extractor"
    THEN /\ DOMAIN earlier[1] \subseteq DOMAIN later[1]
         /\ \A n \in DOMAIN earlier[1] :
               /\ earlier[1][n] \subseteq later[1][n]
               /\ IsPrefix(earlier[2][n], later[2][n])
    ELSE IsPrefix(earlier, later)

\* C8: in the batch loops of the updater, the extractor and the analyzer an
\* error on one file does not stop the batch: a run leaves its loop only
\* when every file of the batch was taken, an exception ends a run only
\* after the loop (the resolver of the extractor), a file that raised
\* leaves the accumulated results as they were, and a file that did not
\* raise keeps all of them.
C8_ErrorDoesNotStopBatch ==
    tool \in {"updater", "extractor", "analyzer"} =>
        /\ pc \in {"start", "loop", "done", "exit", "traceback"}
        /\ pc \in {"done", "exit", "traceback"} => idx > Len(Batch)
        /\ pc = "traceback" => tool = "extractor"
        /\ last.raised => Accumulated = last.kept
        /\ last.file # "" => Keeps(last.kept, Accumulated)

\* A run that ended normally, that caught an exception, and whose last
\* file was processed and added to results that earlier files had left.
C8_Witness ==
    /\ pc = "done"
    /\ caught >= 1
    /\ Len(Batch) >= 3
    /\ last.file # "" /\ ~last.raised
    /\ last.kept # Accumulated
    /\ last.kept # <<Empty, Empty>>

(***************************************************************************)
(* Conflict resolution                                                     *)
(***************************************************************************)
\* No observed version has a greater key
Maximal(v, versions) == \A w \in versions : Less(v, w) = "F"

Resolved == tool = "extractor" /\ pc \in {"done", "traceback"}

\* C9: when the resolver has run, every package is resolved to one of its
\* observed versions that is maximal under the segment-wise key; the
\* versions {1.2.0, 1.10.0} resolve to 1.10.0 and {1.2.0, 1.10.0,
\* 2.0.0-beta} to 2.0.0-beta.
C9_ResolvesToMaximum ==
    Resolved =>
        \A n \in DOMAIN packages :
            /\ n \in DOMAIN resolutions
            /\ resolutions[n] \in packages[n]
            /\ Maximal(resolutions[n], packages[n])
            /\ packages[n] = {V_1_2_0, V_1_10_0} => resolutions[n] = V_1_10_0
            /\ packages[n] = {V_1_2_0, V_1_10_0, V_2_0_0_beta}
                   => resolutions[n] = V_2_0_0_beta

\* C10: the resolver never fails: when it has run on packages that each
\* have at least one version, it has returned, with a resolution for every
\* package name.
C10_ResolverNeverFails ==
    Resolved =>
        /\ pc = "done"
        /\ DOMAIN resolutions = DOMAIN packages

\* What the resolver does when it returns: the resolutions are maximal.
ReturnedMaximum ==
    (tool = "extractor" /\ pc = "done") =>
        \A n \in DOMAIN packages :
            /\ n \in DOMAIN resolutions
            /\ resolutions[n] \in packages[n]
            /\ Maximal(resolutions[n], packages[n])

(***************************************************************************)
(* categorize_package on one package name                                  *)
(***************************************************************************)
CategorizeInit ==
    /\ UpdaterIdle
    /\ AnalyzerIdle
    /\ ValidatorIdle
    /\ document = <<>> /\ original_content = <<>> /\ modified_content = <<>>
    /\ applied = NotApplied
    /\ tool = "categorize" /\ pc = "start" /\ idx = 0 /\ exit_code = 0 /\ caught = 0
    /\ trail = <<>>
    /\ config_files = <<>>
    /\ csproj_files = <<>>
    /\ packages = Empty
    /\ package_sources = Empty
    /\ conflicts = Empty
    /\ resolutions = Empty
    /\ generated = NoOutput
    /\ \E package_name \in PackageNamePool :
          categorized = [NotCategorized EXCEPT !.package_name = package_name]

CategorizePackageCall ==
    /\ ~categorized.called
    /\ categorized' = [categorized EXCEPT !.category = CategorizePackage(categorized.package_name),
                                          !.called = TRUE]
    /\ UNCHANGED <<config_files, csproj_files, packages, package_sources, conflicts,
                   resolutions, generated, transformVars, updaterVars, analyzerVars,
                   validatorVars, controlVars>>

SpecCategorize == CategorizeInit /\ [][CategorizePackageCall]_vars

\* The places in the table of the categories that have a prefix the name
\* starts with
CategoriesOf(package_name) ==
    {i \in 1..Len(package_categories) :
        \E j \in 1..Len(package_categories[i].patterns) :
            LET prefix == package_categories[i].patterns[j]
            IN /\ Len(package_name) >= Len(prefix)
               /\ \A k \in 1..Len(prefix) :
                     SubSeq(package_name, k, k) = SubSeq(prefix, k, k)}

\* C11: categorize_package gives every package name one category: the
\* first category of the table, in the table's order, that has a prefix the
\* name starts with (the case of the letters counts), and 'Other' exactly
\* when the name starts with no prefix of the table.
C11_FirstMatchingCategory ==
    categorized.called =>
        LET matching == CategoriesOf(categorized.package_name)
        IN /\ categorized.category \in
                  {package_categories[i].category : i \in 1..Len(package_categories)}
                      \cup {"Other"}
           /\ categorized.category = "Other" <=> matching = {}
           /\ \A i \in matching :
                 (\A k \in matching : i <= k)
                     => categorized.category = package_categories[i].category

\* A name that starts with prefixes of two categories gets the first one.
C11_Witness ==
    /\ categorized.called
    /\ categorized.package_name = "System.Text.Json"
    /\ categorized.category = "Microsoft Core"
    /\ Cardinality(CategoriesOf(categorized.package_name)) = 2

(***************************************************************************)
(* The validator: what the solution directory holds, read off the files    *)
(***************************************************************************)
Stage(name) == validation_results[name].status

Validated(name) == tool = "validator" /\ Stage(name) # "UNKNOWN"

ValidatorEnded == tool = "validator" /\ pc \in {"done", "exit"}

\* The central version file can be read
Readable(props) == props.exists /\ props.parses

\* The names the central version file declares a version for
Central ==
    IF Readable(solution.props)
    THEN {solution.props.versions[i][1] :
             i \in {k \in 1..Len(solution.props.versions) :
                       /\ solution.props.versions[k][1] # ""
                       /\ solution.props.versions[k][2] # ""}}
    ELSE {}

\* The names the PackageReference elements of the project files reference,
\* with or without an inline version
Referenced ==
    UNION {{solution.projects[p].references[i][1] :
               i \in 1..Len(solution.projects[p].references)} \ {""} :
                  p \in {q \in 1..Len(solution.projects) : solution.projects[q].parses}}

\* C12: cross-consistency ends in FAIL when a package name referenced by a
\* PackageReference element of a project file, with or without an inline
\* version, has no entry in the central version file; in WARN when no
\* referenced name is missing and the central file holds a name no project
\* references; in PASS otherwise.
C12_ConsistencyStatus ==
    Validated("package_consistency") =>
        Stage("package_consistency") =
            IF Referenced \ Central # {} THEN "FAIL"
            ELSE IF Central \ Referenced # {} THEN "WARN"
            ELSE "PASS"

\* The same package name in two version declarations of the central file
Duplicate(props) ==
    \E i, j \in 1..Len(props.versions) :
        /\ i < j
        /\ props.versions[i][1] = props.versions[j][1]
        /\ props.versions[i][1] # ""
        /\ props.versions[i][2] # "" /\ props.versions[j][2] # ""

InlineVersion(project) ==
    \E i \in 1..Len(project.references) : project.references[i][2] # ""

\* C14: project file validation yields FAIL if and only if a discovered
\* project file has a PackageReference element that still carries an inline
\* version, has a packages.config in its directory, or cannot be parsed;
\* otherwise it yields PASS.
C14_ProjectsStatus ==
    Validated("project_files") =>
        Stage("project_files") =
            IF \E p \in 1..Len(solution.projects) :
                  \/ ~solution.projects[p].parses
                  \/ solution.projects[p].legacy
                  \/ InlineVersion(solution.projects[p])
            THEN "FAIL"
            ELSE "PASS"

\* The points of a stage: PASS 100, WARN 75, FAIL 0, SKIP 0
Points(name) ==
    CASE Stage(name) = "PASS" -> 100
      [] Stage(name) = "WARN" -> 75
      [] OTHER -> 0

\* The weighted average of the four stages in hundredths: the weights add
\* up to 100, so the weighted sum is the average times 100
Average ==
    25 * Points("directory_packages_props") + 30 * Points("project_files")
    + 25 * Points("package_consistency") + 20 * Points("build_validation")

Band(hundredths) ==
    IF hundredths >= 9000 THEN "EXCELLENT"
    ELSE IF hundredths >= 7500 THEN "GOOD"
    ELSE IF hundredths >= 5000 THEN "NEEDS_WORK"
    ELSE "POOR"

\* The band is the band of the weighted average and the process exits 0
\* exactly when the band is EXCELLENT or GOOD
BandAndExit ==
    /\ validation_results.overall.status = Band(Average)
    /\ (\A name \in {"directory_packages_props", "project_files",
                     "package_consistency", "build_validation"} :
            Stage(name) = "PASS")
           => validation_results.overall.status = "EXCELLENT"
    /\ (\A name \in {"directory_packages_props", "project_files",
                     "package_consistency", "build_validation"} :
            Stage(name) = "FAIL")
           => validation_results.overall.status = "POOR"
    /\ exit_code = 0 <=> validation_results.overall.status \in {"EXCELLENT", "GOOD"}

\* C15 as stated: the overall score of an ended validation is the weighted
\* average of the four stage scores (weights 25, 30, 25, 20; PASS 100,
\* WARN 75, FAIL 0, SKIP 0), banded EXCELLENT (>= 90), GOOD (>= 75),
\* NEEDS_WORK (>= 50), POOR; and the process exits 0 exactly when the band
\* is EXCELLENT or GOOD.  The score is held in tenths.
C15_ScoreIsAverage ==
    ValidatorEnded =>
        /\ validation_results.overall.score * 10 = Average
        /\ BandAndExit

\* C15 amended: the overall score is the weighted average rounded to one
\* decimal, a half going to the even tenth; the band is the band of the
\* unrounded average, all PASS gives 100 and EXCELLENT, all FAIL gives 0
\* and POOR, and the process exits 0 exactly when the band is EXCELLENT or
\* GOOD.
C15_ScoreIsRoundedAverage ==
    ValidatorEnded =>
        LET score == validation_results.overall.score
            above == score * 10 - Average
        IN /\ above \in -5..5
           /\ above \in {-5, 5} => score % 2 = 0
           /\ Average = 10000 => score = 1000
           /\ Average = 0 => score = 0
           /\ BandAndExit

\* One WARN of the central version file among three PASS: the average is
\* 93.75 and the score 93.8, in the band EXCELLENT.
C15_Witness ==
    /\ ValidatorEnded
    /\ Stage("directory_packages_props") = "WARN"
    /\ Average = 9375
    /\ validation_results.overall.score = 938
    /\ validation_results.overall.status = "EXCELLENT"
    /\ exit_code = 0

\* The build validation has left only results and started only processes
\* that the outcome of dotnet restore allows
Ran(step) == \E i \in 1..Len(trail) : trail[i] = step

Exited(outcome) == outcome.raised = ""

\* C16: build validation never ends the validator and always ends in one
\* of SKIP, PASS, FAIL: SKIP when skipping was requested, and no external
\* process is started; otherwise dotnet restore is started first and dotnet
\* build only after restore exited 0; PASS only if both exited 0; a
\* non-zero exit of either step, a timeout or any exception yields FAIL,
\* with the stderr of the step recorded on a non-zero exit.
C16_BuildValidation ==
    Validated("build_validation") =>
        LET skip == HasFlag(argv, "--skip-build")
            restore == solution.restore
            build == solution.build
            found == validation_results.build_validation
            started == SelectSeq(trail, LAMBDA t : t \in {"dotnet restore", "dotnet build"})
            recorded(text) == \E i \in 1..Len(found.details) :
                                  found.details[i] = "Error: " \o text
        IN /\ pc \in {"report", "done", "exit"}
           /\ caught = 0
           /\ found.status \in {"SKIP", "PASS", "FAIL"}
           /\ skip <=> found.status = "SKIP"
           /\ skip => started = <<>>
           /\ ~skip =>
                 /\ started \in {<<"dotnet restore">>, <<"dotnet restore", "dotnet build">>}
                 /\ Ran("dotnet build") <=> (Exited(restore) /\ restore.returncode = 0)
                 /\ found.status = "PASS"
                        <=> /\ Exited(restore) /\ restore.returncode = 0
                            /\ Exited(build) /\ build.returncode = 0
                 /\ (Exited(restore) /\ restore.returncode # 0)
                        => recorded(restore.stderr)
                 /\ (Ran("dotnet build") /\ Exited(build) /\ build.returncode # 0)
                        => recorded(build.stderr)

\* dotnet restore exits 1: FAIL with its stderr, and dotnet build is not
\* started.
C16_Witness ==
    /\ Validated("build_validation")
    /\ ~HasFlag(argv, "--skip-build")
    /\ solution.restore.returncode = 1
    /\ Stage("build_validation") = "FAIL"
    /\ validation_results.build_validation.details
           = <<"dotnet restore failed", "Error: error NU1008">>
    /\ Ran("dotnet restore") /\ ~Ran("dotnet build")

\* The matches of the pattern of the code in the text of the log
Occurrences(log, code) == {j \in 1..Len(log.matches) : log.matches[j].code = code}

\* C17: for every error code of the table, every match of the pattern of
\* the code in the text of an analyzed log yields exactly one LogError of
\* that code, and the first captured group of the match is recorded as an
\* affected package name of that log, for the patterns of one capture
\* group as for those of several.
C17_MatchesRecorded ==
    tool = "analyzer" =>
        \A r \in 1..Len(results) : \A l \in 1..Len(log_files) :
            log_files[l].name = results[r].file =>
                LET log == log_files[l]
                    found == results[r]
                IN /\ \A i \in 1..Len(error_patterns) :
                          LET code == error_patterns[i]
                              n == Cardinality(Occurrences(log, code))
                          IN IF n = 0 THEN code \notin DOMAIN found.summary
                             ELSE /\ code \in DOMAIN found.summary
                                  /\ found.summary[code] = n
                   /\ found.total_errors = Len(log.matches)
                   /\ \A j \in 1..Len(log.matches) :
                          log.matches[j].first \in found.packages_affected

\* The run has looked for its input files and has found none
NoInputFiles ==
    /\ Ran("discover")
    /\ CASE tool = "updater" -> project_files = <<>>
         [] tool = "extractor" -> config_files = <<>> /\ csproj_files = <<>>
         [] tool = "validator" -> solution.projects = <<>>
         [] tool = "analyzer" -> log_files = <<>>
         [] OTHER -> FALSE

Ended == pc \in {"done", "exit", "traceback"}

\* A report or an output file has been written in the run
Wrote ==
    \/ \E i \in 1..Len(trail) : StartsWith(trail[i], "write ")
    \/ tool = "updater" /\ (disk # run_start.disk \/ backups # run_start.backups)

\* C18: in every tool, a run that discovers no input files (updater: no
\* project files; extractor: no legacy config or project files; validator:
\* no project files under the solution directory; log analyzer: no log
\* files) ends with a non-zero exit status and writes no report or output
\* file.
C18_NoInputFiles ==
    (NoInputFiles /\ Ended) => (exit_code # 0 /\ ~Wrote)

\* A required parameter of the chosen operation is missing from the
\* command line of the updater
RequiredMissing ==
    \/ args.operation = "remove-package" /\ args.package_name = ""
    \/ args.operation = "add-property"
           /\ (args.property_name = "" \/ args.property_value = "")

\* C19: in the updater, a missing required parameter of the chosen
\* operation (--package-name for remove-package; --property-name or
\* --property-value for add-property) ends the process with a non-zero
\* status before the discovery of the files and before any project file is
\* read, backed up or written.
C19_MissingParameterExits ==
    (tool = "updater" /\ runs > 0 /\ RequiredMissing) =>
        /\ pc = "exit"
        /\ exit_code # 0
        /\ ~Ran("discover")
        /\ project_files = <<>>
        /\ last = NoFile
        /\ changes_made = <<>>
        /\ disk = run_start.disk
        /\ backups = run_start.backups

\* add-property with a name and no value, run after another run
C19_Witness ==
    /\ tool = "updater"
    /\ runs = 2
    /\ args.operation = "add-property"
    /\ args.property_name # ""
    /\ args.property_value = ""
    /\ pc = "exit"
    /\ exit_code = 1
    /\ trail = <<>>

\* C20: whenever at least one of the four validation stages (central
\* version file, project files, cross-consistency, build) ends with status
\* FAIL, the validator process exits with a non-zero status.
C20_FailExitsNonZero ==
    (/\ ValidatorEnded
     /\ \E name \in {"directory_packages_props", "project_files",
                     "package_consistency", "build_validation"} :
            Stage(name) = "FAIL")
        => exit_code # 0

(***************************************************************************)
(* Ties in the resolution of versions                                      *)
(***************************************************************************)
\* The versions the resolver can pick for the set, over the orders the set
\* can be iterated in
Resolvable(versions) == {Resolution(order) : order \in Orders(versions)}

\* C21: ties are impossible in version resolution: no two distinct version
\* strings observed for one package have equal segment-wise keys, so
\* exactly one of them is maximal and the resolved version is the same
\* whatever the order in which the versions are iterated.
C21_NoTies ==
    tool = "extractor" =>
        \A n \in DOMAIN packages :
            /\ \A v, w \in packages[n] : v # w => SortKey(v) # SortKey(w)
            /\ Cardinality(Resolvable(packages[n])) = 1

\* The names with more than one observed version
Conflicting == {n \in DOMAIN packages : Cardinality(packages[n]) > 1}

\* The maps the resolver has returned for the observed packages
ReturnedMaps ==
    /\ DOMAIN resolutions = DOMAIN packages
    /\ \A n \in DOMAIN packages :
          /\ resolutions[n] \in packages[n]
          /\ Cardinality(packages[n]) = 1 => packages[n] = {resolutions[n]}
    /\ DOMAIN conflicts = Conflicting
    /\ \A n \in Conflicting :
          /\ Len(conflicts[n]) = Cardinality(packages[n])
          /\ {conflicts[n][i] : i \in 1..Len(conflicts[n])} = packages[n]

\* C22: after conflict resolution, that is when the resolver has returned,
\* the resolutions map has exactly the observed package names as keys and maps each to one version that is a
\* member of the observed version set of the package (the only version
\* when one was observed); the conflicts map has exactly the names with
\* more than one observed version, each with its full version set.
C22_ResolutionsAndConflicts ==
    (tool = "extractor" /\ pc = "done") => ReturnedMaps

\* The resolver has returned for a package with two versions and a
\* package with one.
C22_Witness ==
    /\ tool = "extractor" /\ pc = "done"
    /\ Conflicting # {}
    /\ Conflicting # DOMAIN packages
    /\ \E n \in Conflicting : resolutions[n] \in packages[n]

(***************************************************************************)
(* The outputs of the extractor                                            *)
(***************************************************************************)
Extracted == tool = "extractor" /\ pc = "done"

\* The category Other, when it is among the categories, is the last one
OtherLast(categories) ==
    \A i \in 1..Len(categories) : categories[i] = "Other" => i = Len(categories)

PropsLabels == [i \in 1..Len(generated.props.groups) |-> generated.props.groups[i].label]

ReportLabels == [i \in 1..Len(generated.report) |-> generated.report[i].category]

\* C23: in every grouped output of the extractor, the generated central
\* version file and the PACKAGES BY CATEGORY section of the extraction
\* report, the catch-all category Other, when present, is rendered after
\* every other category.
C23_OtherLast ==
    Extracted => (OtherLast(PropsLabels) /\ OtherLast(ReportLabels))

(***************************************************************************)
(* The collector of the extractor                                          *)
(***************************************************************************)
\* The files the loops of find_and_extract have taken so far
Taken == Slice(config_files \o csproj_files, 1, idx - 1)

\* The (name, version) pairs of a file that make an extracted pair
ExtractedPairs(file) ==
    {file.packages[i] : i \in {j \in 1..Len(file.packages) :
                                  /\ file.packages[j][1] # ""
                                  /\ file.packages[j][2] # <<>>}}

\* C24: after extraction from any sequence of files, a name is a key of the
\* version mapping iff it is a key of the sources mapping; every version
\* set is non-empty; every (name, version) pair extracted so far is in the
\* version mapping and its file is in the source list of the name; the
\* version sets and source lists have not shrunk with the last file; and a
\* malformed file has left both mappings unchanged.
C24_CollectorState ==
    (tool = "extractor" /\ pc # "start") =>
        /\ DOMAIN packages = DOMAIN package_sources
        /\ \A n \in DOMAIN packages : packages[n] # {}
        /\ \A f \in 1..Len(Taken) :
              Taken[f].parses =>
                  \A pair \in ExtractedPairs(Taken[f]) :
                      /\ pair[1] \in DOMAIN packages
                      /\ pair[2] \in packages[pair[1]]
                      /\ \E i \in 1..Len(package_sources[pair[1]]) :
                            package_sources[pair[1]][i] = Taken[f].name
        /\ last.file # "" => Keeps(last.kept, <<packages, package_sources>>)
        /\ (last.file # "" /\ last.raised) => last.kept = <<packages, package_sources>>

\* A malformed file was taken after a file that gave pairs, and a later
\* file has added a version to a name that had one.
C24_Witness ==
    /\ tool = "extractor"
    /\ caught >= 1
    /\ last.file # "" /\ ~last.raised
    /\ \E n \in DOMAIN last.kept[1] :
          /\ last.kept[1][n] # packages[n]
          /\ Len(package_sources[n]) > Len(last.kept[2][n])

(***************************************************************************)
(* The generated central version file, read by the validator               *)
(***************************************************************************)
\* The entity references of XML and the characters they stand for
Entities ==
    {<<"&amp;", "&">>, <<"&lt;", "<">>, <<"&gt;", ">">>, <<"&quot;", "\"">>,
     <<"&apos;", "'">>}

\* ET.parse accepts the text between the quotes of an attribute: it holds
\* no '<', no '"', and no '&' that starts no entity reference
WellFormedAttribute(text) ==
    \A i \in 1..Len(text) :
        LET c == SubSeq(text, i, i)
        IN /\ c \notin {"<", "\""}
           /\ c = "&" => \E e \in Entities : StartsWith(SubSeq(text, i, Len(text)), e[1])

\* element.get(...): the value of the attribute, entity references replaced
RECURSIVE AttributeValue(_)
AttributeValue(text) ==
    IF text = "" THEN ""
    ELSE IF \E e \in Entities : StartsWith(text, e[1])
         THEN LET e == CHOOSE x \in Entities : StartsWith(text, x[1])
              IN e[2] \o AttributeValue(SubSeq(text, Len(e[1]) + 1, Len(text)))
         ELSE SubSeq(text, 1, 1) \o AttributeValue(SubSeq(text, 2, Len(text)))

\* The PackageVersion lines of the file, group after group
RECURSIVE Entries(_)
Entries(groups) ==
    IF groups = <<>> THEN <<>> ELSE Head(groups).entries \o Entries(Tail(groups))

\* ET.parse(props_file) of migration-validator.py on the generated file
ParseProps(content) ==
    LET entries == Entries(content.groups)
    IN PropsFile(TRUE,
                 \A i \in 1..Len(entries) :
                     /\ WellFormedAttribute(entries[i].include)
                     /\ WellFormedAttribute(entries[i].version),
                 content.flag,
                 [i \in 1..Len(entries) |->
                     <<AttributeValue(entries[i].include),
                       AttributeValue(entries[i].version)>>])

\* The generated file has one PackageVersion line for each observed name,
\* with the resolved version of the name, and no other line
OneEntryEach ==
    LET entries == Entries(generated.props.groups)
    IN /\ Len(entries) = Cardinality(DOMAIN packages)
       /\ \A n \in DOMAIN packages :
             \E i \in 1..Len(entries) :
                 /\ entries[i].include = n
                 /\ entries[i].version = VersionText(resolutions[n])
                 /\ \A j \in 1..Len(entries) : entries[j].include = n => j = i

\* C25: the central version file generated by the extractor declares
\* ManagePackageVersionsCentrally as true and contains exactly one
\* PackageVersion entry for each observed package name, carrying the
\* resolved version of the name, no name appearing in two entries or two
\* groups; and the central version-file stage of the validator applied to
\* the file finds no duplicate and yields PASS.
C25_GeneratedPropsPass ==
    Extracted =>
        /\ generated.props.flag = "true"
        /\ OneEntryEach
        /\ PropsValidation(ParseProps(generated.props)).result.status = "PASS"

=============================================================================
